---- MODULE Spec2Model ----
(***************************************************************************)
(* A model of hancho.py (aappleby/tinybuild): the task graph driver        *)
(* (App.async_run_tasks, App.queue_pending_tasks), the task coroutine      *)
(* (Task.run_async, _await_variant, Task.task_init, Task.needs_rerun,      *)
(* Task.run_commands, Task.run_command) and the job pool                   *)
(* (App.acquire_jobs, App.release_jobs).                                   *)
(*                                                                         *)
(* The program is single-threaded asyncio: a coroutine runs until it       *)
(* awaits something that is not ready.  Each action below is one piece of  *)
(* a coroutine between two such points; the fields of a task's config are  *)
(* read (drawn from the description's sets) where the code reads them.     *)
(***************************************************************************)
EXTENDS Integers, Sequences, FiniteSets, TLC

\* ------------------------------------------------------------------ bounds

NumTasks == 3
MaxJobs == 2
MaxCmds == 2
MaxTime == 2
MaxChain == 23
MaxText == 6
MaxNest == 3

Tasks == 1..NumTasks

\* Config.job_count values a description may give: up to one more than the
\* largest job budget, so that a request can exceed the pool.
JobCounts == 1..(MaxJobs + 1)

\* ------------------------------------------------------------------ paths

\* Paths are strings, modelled as sequences of characters.
root_path == <<"/", "r">>

BuildPathUnder == <<"/", "r", "/", "b">>
BuildPathSibling == <<"/", "r", "2">>
BuildPathOutside == <<"/", "x">>
BuildPaths == {BuildPathUnder, BuildPathSibling, BuildPathOutside}

FileF == <<"/", "r", "/", "b", "/", "f">>
FileG == <<"/", "r", "/", "b", "/", "g">>

\* A build file that only task t has: /r/b/o, /r/b/oo, ...
OwnFile(t) == BuildPathUnder \o <<"/">> \o [i \in 1..t |-> "o"]

\* str.startswith
startswith(s, prefix) ==
    /\ Len(s) >= Len(prefix)
    /\ SubSeq(s, 1, Len(prefix)) = prefix

\* ------------------------------------------------------------------ values

\* The variants of a config field that _await_variant distinguishes.
VStr == [k |-> "str", id |-> 0, items |-> <<>>]
VTask(d) == [k |-> "task", id |-> d, items |-> <<>>]
VList(s) == [k |-> "list", id |-> 0, items |-> s]
VDict(s) == [k |-> "dict", id |-> 0, items |-> s]
VConfig(s) == [k |-> "config", id |-> 0, items |-> s]
\* An awaitable that is not a Task (a future or coroutine of the description).
VAwaitable == [k |-> "awaitable", id |-> 0, items |-> <<>>]
\* An awaitable that resolves to `value`.
VFuture(value) == [k |-> "awaitable", id |-> 0, items |-> <<value>>]

\* The result of awaiting an awaitable: what the description made it
\* resolve to, a string if it does not say.
resolves_to(awaitable) ==
    IF awaitable.items = <<>> THEN VStr ELSE awaitable.items[1]

\* The entry of a walk that stands for an awaitable that is not a Task.
RawAwaitable == 0

RECURSIVE await_variant_tasks(_)
RECURSIVE await_variant_items(_)
\* What _await_variant awaits in `variant`, in the order it meets it: a
\* Config is walked through its __dict__, a dict and a list element by
\* element, a Task is a leaf (subtasks are not recursed into) and so is any
\* other awaitable.
await_variant_tasks(variant) ==
    IF variant.k = "task" THEN <<variant.id>>
    ELSE IF variant.k = "awaitable" THEN <<RawAwaitable>>
    ELSE IF variant.k \in {"config", "dict", "list"}
         THEN await_variant_items(variant.items)
         ELSE <<>>

await_variant_items(items) ==
    IF items = <<>> THEN <<>>
    ELSE await_variant_tasks(Head(items)) \o await_variant_items(Tail(items))

RECURSIVE await_variant_leaves(_)
\* The awaitables that are not Tasks among the leaves of the walk of `items`,
\* in the order the walk meets them.
await_variant_leaves(items) ==
    IF items = <<>> THEN <<>>
    ELSE LET head == Head(items) IN
         (IF head.k = "awaitable" THEN <<head>>
          ELSE IF head.k \in {"config", "dict", "list"}
          THEN await_variant_leaves(head.items)
          ELSE <<>>) \o await_variant_leaves(Tail(items))

\* A reference to producer d as a description writes it: the Task handle
\* itself, the handle inside nested lists, or the handle in a dict inside a
\* nested config, by turns.
Ref(d) ==
    CASE d % 3 = 1 -> VTask(d)
      [] d % 3 = 2 -> VList(<<VStr, VList(<<VTask(d)>>)>>)
      [] OTHER -> VConfig(<<VDict(<<VTask(d)>>)>>)

\* The shapes of config a description may give a task: no producer, one
\* producer, and two references (to the same producer or to a later one),
\* the second inside a list; "awaitable" is a config that holds an awaitable
\* of the description's own.
ConfigShapes == {"plain", "one", "two"}

\* The configs of the shapes `shapes` for task t.  Producers are tasks
\* declared before t.
TaskConfigs(t, shapes) ==
    LET P == 1..(t - 1) IN
    {c \in {VConfig(<<VStr>>)} : "plain" \in shapes}
    \cup {c \in {VConfig(<<VList(<<VAwaitable>>)>>)} : "awaitable" \in shapes}
    \cup {c \in {VConfig(<<VList(<<VFuture(VList(<<VAwaitable, VStr>>))>>),
                            VDict(<<VFuture(VStr)>>)>>)} : "deep" \in shapes}
    \cup {c \in {VConfig(<<VStr, Ref(d)>>) : d \in P} : "one" \in shapes}
    \cup {c \in {VConfig(<<Ref(p[1]), VList(<<Ref(p[2])>>)>>) :
                    p \in {q \in P \X P : q[1] <= q[2]}} : "two" \in shapes}

\* ------------------------------------------------------------------ state

VARIABLES
    description,      \* what the build description lets task fields be
    jobs,             \* Config.jobs
    shuffle,          \* Config.shuffle
    dry_run,          \* Config.dry_run (class attribute; action.dry_run reads it)
    config,           \* task.config, per task
    promise,          \* task.promise: "None", "Future" or "Value"
    future,           \* state of the asyncio task of run_async
    pc,               \* where each task's coroutine is
    walk,             \* how many Task handles the value-walk has passed
    awaited,          \* what the value-walk put in the place of each leaf
    job_count,        \* task.action.job_count (0 before task_init)
    abs_build_path,   \* task.action.abs_build_path (<<>> before task_init)
    abs_build_files,  \* task.action.abs_build_files (<<>> before task_init)
    config_dry_run,   \* task.config.dry_run, read by task_init
    cmd_index,        \* how many command entries run_commands has started
    result,           \* the local `result` of run_commands
    returncode,       \* task.returncode (-1 before a subprocess has ended)
    outcome,          \* how run_async ended, with the error kind
    registered,       \* the paths each task added to all_build_files
    made_dirs,        \* the tasks whose task_init created directories
    all_build_files,  \* app.all_build_files
    tasks_total, tasks_pass, tasks_fail, tasks_skip, tasks_cancel,
    task_counter,     \* app.task_counter
    pending_tasks,    \* app.pending_tasks
    queued_tasks,     \* app.queued_tasks
    jobs_available,   \* app.jobs_available
    notified,         \* waiters of jobs_lock woken by notify_all
    running,          \* the coroutine the event loop is executing (0: none)
    driver,           \* where App.build / async_run_tasks is
    driver_task,      \* the task the driver popped (0: none)
    build_result,     \* <<what App.build returned>> (<<>> before)
    declared_by,      \* who called Task(): "load" (the description), "callback"
    reason,           \* task.reason ("None" until needs_rerun has returned)
    dirstack,         \* app.dirstack
    cwd,              \* the working directory of the process
    loading,          \* the calls of load_module in progress: what dirstack
                      \* and cwd were when each was entered
    load_result,      \* how the latest call of load_module went
    stale_in,         \* a call of needs_rerun: the task's files and the disk
    stale_out,        \* what the call returned or raised
    expand_in,        \* a call of expand: the config's fields and the value
    expand_out,       \* what the call returned or raised
    expand_again      \* what expand returned or raised for the value returned

vars == <<description, jobs, shuffle, dry_run, config, promise, future, pc,
          walk, job_count, abs_build_path, abs_build_files, cmd_index,
          outcome, registered, made_dirs, all_build_files, tasks_total, tasks_pass, tasks_fail,
          tasks_skip, tasks_cancel, task_counter, pending_tasks,
          queued_tasks, jobs_available, notified, running, driver,
          driver_task, build_result, declared_by, reason, dirstack, cwd, loading,
          load_result,
          stale_in, stale_out, expand_in, expand_out, expand_again,
          awaited, config_dry_run, result, returncode>>

task_vars == <<config, promise, future, pc, walk, job_count, abs_build_path,
               abs_build_files, cmd_index, outcome, registered, made_dirs,
               declared_by, reason, awaited, config_dry_run, result,
               returncode>>
\* the state of the library functions that a build description calls
dir_vars == <<dirstack, cwd, loading, load_result>>
lib_vars == <<dir_vars, stale_in, stale_out, expand_in, expand_out,
              expand_again>>
flag_vars == <<description, jobs, shuffle, dry_run>>
count_vars == <<tasks_total, tasks_pass, tasks_fail, tasks_skip, tasks_cancel>>
driver_vars == <<driver, driver_task, build_result>>
\* what task_init writes
init_vars == <<job_count, abs_build_path, abs_build_files, registered,
               made_dirs, all_build_files, task_counter, config_dry_run>>
\* the position of the value-walk and what it has written
walk_vars == <<walk, awaited>>
\* what run_commands and run_command write
cmd_vars == <<cmd_index, result, returncode>>

\* the state of the build: everything but lib_vars
app_vars == <<flag_vars, task_vars, all_build_files, count_vars, task_counter,
              pending_tasks, queued_tasks, jobs_available, notified, running,
              driver_vars>>

\* ------------------------------------------------------------------ helpers

InSeq(x, s) == \E i \in 1..Len(s) : s[i] = x

\* random.shuffle: every ordering of the list
Orderings(s) ==
    {p \in [1..Len(s) -> Tasks] :
        /\ \A i \in 1..Len(s) : InSeq(p[i], s)
        /\ \A i, j \in 1..Len(s) : p[i] = p[j] => i = j}

ErrorKinds == {"AwaitError", "ExpansionError", "PathMissing", "PathEscape", "DuplicateOutput",
               "InvalidDepFormat", "JobOverflow", "InvalidCommand",
               "CommandFailed", "CallbackError", "CancelledError",
               "FileNotFoundError"}

\* asyncio.CancelledError derives from BaseException, as every error does.
BaseException == ErrorKinds
CancelledError == {"CancelledError"}

Done(t) == future[t] \in {"files", "Cancelled"}

\* The event loop runs coroutines only inside run_until_complete.
LoopRunning == driver \in {"loop", "await"}

\* asyncio runs one coroutine at a time, from the point where it was resumed
\* to the next await that has to wait.  `running` is that coroutine: a task,
\* the driver, or nobody while the loop picks the next one.
Nobody == 0
Driver == NumTasks + 1

CanRun(c) == running \in {Nobody, c}

\* The positions at which a task's coroutine is executing, not waiting.
Executing == {"walk", "rerun", "acquire", "run"}

\* The coroutine of t keeps the loop while it executes.
KeepsRunning(t) == running' = IF pc'[t] \in Executing THEN t ELSE Nobody

\* ------------------------------------------------------------------ Init

\* `result = []` at the head of run_commands: no entry has returned.
NoResult == [entry |-> 0, value |-> "[]"]

\* App.__init__ and the class attributes of a task: no task is declared.
InitApp ==
    /\ config = [t \in Tasks |-> VConfig(<<>>)]
    /\ promise = [t \in Tasks |-> "None"]
    /\ future = [t \in Tasks |-> "none"]
    /\ pc = [t \in Tasks |-> "undeclared"]
    /\ walk = [t \in Tasks |-> 0]
    /\ job_count = [t \in Tasks |-> 0]
    /\ abs_build_path = [t \in Tasks |-> <<>>]
    /\ abs_build_files = [t \in Tasks |-> <<>>]
    /\ cmd_index = [t \in Tasks |-> 0]
    /\ outcome = [t \in Tasks |-> "none"]
    /\ registered = [t \in Tasks |-> {}]
    /\ made_dirs = {}
    /\ all_build_files = {}
    /\ tasks_total = 0
    /\ tasks_pass = 0
    /\ tasks_fail = 0
    /\ tasks_skip = 0
    /\ tasks_cancel = 0
    /\ task_counter = 0
    /\ pending_tasks = <<>>
    /\ queued_tasks = <<>>
    /\ jobs_available = MaxJobs
    /\ notified = {}
    /\ running = Nobody
    /\ driver = "load"
    /\ driver_task = 0
    /\ build_result = <<>>
    /\ declared_by = [t \in Tasks |-> "nobody"]
    /\ reason = [t \in Tasks |-> "None"]
    /\ awaited = [t \in Tasks |-> <<>>]
    /\ config_dry_run = [t \in Tasks |-> FALSE]
    /\ result = [t \in Tasks |-> NoResult]
    /\ returncode = [t \in Tasks |-> -1]

\* App.__init__: the directory stack holds the working directory.
InitDirs ==
    /\ dirstack = <<root_path>>
    /\ cwd = root_path
    /\ loading = <<>>
    /\ load_result = "none"

\* No call of a library function has been made.
NotCalled == [raise |-> "", reason |-> "None"]

\* A task without files, on a disk without files.
NoFiles == [force |-> FALSE, sources |-> <<>>, builds |-> <<>>,
            depfile |-> "none", mtime |-> <<>>]

\* expand has not been called.
NotExpanded == [err |-> "None", val |-> VStr, peak |-> 0, at |-> 0, left |-> 0]

\* A config without fields and an empty value.
NoFields == [family |-> "none", fields |-> 0, kind |-> "none", back |-> 0,
             start |-> 0, scope |-> <<>>, value |-> VStr, fail_ok |-> FALSE]

\* app.expand_depth is 0 and expand is still to be called on `call`.
InitExpand(call) ==
    /\ expand_in = call
    /\ expand_out = NotExpanded
    /\ expand_again = NotExpanded

\* The state after App() is constructed, for a build description whose
\* tasks draw their fields from `desc` and a command line that sets
\* Config.jobs, Config.shuffle and Config.dry_run.
InitWith(desc, jobs_flag, shuffle_flag, dry_run_flag) ==
    /\ description = desc
    /\ jobs \in jobs_flag
    /\ shuffle \in shuffle_flag
    /\ dry_run \in dry_run_flag
    /\ InitApp
    /\ InitDirs
    /\ stale_in = NoFiles
    /\ stale_out = NotCalled
    /\ InitExpand(NoFields)

\* ------------------------------------------------------------------ Task.__init__

\* Task.__init__: the task gets its config, promise = None, is counted in
\* tasks_total and appended to pending_tasks.  Tasks are numbered in the
\* order they are declared.
NewTask == tasks_total + 1

\* The load phase (App.load_hanchos) declares a task.
LoadTask ==
    /\ driver = "load"
    /\ NewTask \in 1..description.tasks
    /\ \E c \in TaskConfigs(NewTask, description.shapes) :
           config' = [config EXCEPT ![NewTask] = c]
    /\ pc' = [pc EXCEPT ![NewTask] = "pending"]
    /\ tasks_total' = tasks_total + 1
    /\ pending_tasks' = Append(pending_tasks, NewTask)
    /\ declared_by' = [declared_by EXCEPT ![NewTask] = "load"]
    /\ UNCHANGED <<flag_vars, lib_vars, reason, init_vars, promise, future, walk_vars, cmd_vars,
                   outcome, tasks_pass, tasks_fail, tasks_skip, tasks_cancel,
                   queued_tasks, jobs_available, notified, running,
                   driver_vars>>

\* ------------------------------------------------------------------ queue_pending_tasks

\* A queue_pending_tasks that starts the first pending task only.
QueueOrdersFirstOnly ==
    IF pending_tasks = <<>> THEN {<<>>} ELSE {<<Head(pending_tasks)>>}

\* The orders queue_pending_tasks may append pending_tasks in.
QueueOrders == IF shuffle THEN Orderings(pending_tasks) ELSE {pending_tasks}

\* A queue_pending_tasks that leaves task.promise as it was.
queue_promise_unset(p, order) == p

\* queue_pending_tasks with the order `order`: every pending task gets an
\* asyncio task for run_async (which starts at the value-walk) and goes to
\* queued_tasks; pending_tasks is cleared.  `p` and `f` and `c` are the
\* promise, future and pc maps to update.
queue_promise(p, order) ==
    [t \in Tasks |-> IF InSeq(t, order) THEN "Future" ELSE p[t]]

queue_future(f, order) ==
    [t \in Tasks |-> IF InSeq(t, order) THEN "running" ELSE f[t]]

queue_pc(c, order) ==
    [t \in Tasks |-> IF InSeq(t, order) THEN "walk" ELSE c[t]]

\* ------------------------------------------------------------------ driver

\* App.build entering async_run_tasks: the pool is set to Config.jobs and the
\* tasks declared by the load phase are queued.
StartBuild ==
    /\ driver = "load"
    /\ jobs_available' = jobs
    /\ \E order \in QueueOrders :
        /\ promise' = queue_promise(promise, order)
        /\ future' = queue_future(future, order)
        /\ pc' = queue_pc(pc, order)
        /\ queued_tasks' = queued_tasks \o order
    /\ pending_tasks' = <<>>
    /\ driver' = "loop"
    /\ running' = Driver
    /\ UNCHANGED <<flag_vars, lib_vars, declared_by, reason, init_vars, config, walk_vars, cmd_vars, outcome,
                   count_vars, notified, driver_task, build_result>>

\* A result that reports failure only when no task passed.
async_run_tasks_result_lenient == IF tasks_fail # 0 /\ tasks_pass = 0 THEN -1 ELSE 0

\* What async_run_tasks returns.
async_run_tasks_result == IF tasks_fail # 0 THEN -1 ELSE 0

\* An await of the driver that returns whether or not the task has ended.
driver_await_returns_at_once(t) == t \in Tasks

\* `await task.promise` in the driver does not have to wait: the promise is
\* no longer awaitable, or its future has completed.
driver_await_returns(t) == promise[t] = "Future" => Done(t)

\* The head of the driver's loop: with no queued task async_run_tasks
\* returns and build returns its result; otherwise the head is popped and its
\* promise awaited.
DriverPop ==
    /\ driver = "loop"
    /\ running = Driver
    /\ IF queued_tasks = <<>>
       THEN /\ driver' = "done"
            /\ build_result' = <<async_run_tasks_result>>
            /\ running' = Nobody
            /\ UNCHANGED <<queued_tasks, driver_task>>
       ELSE /\ driver' = "await"
            /\ driver_task' = Head(queued_tasks)
            /\ queued_tasks' = Tail(queued_tasks)
            /\ running' = IF driver_await_returns(Head(queued_tasks))
                          THEN Driver ELSE Nobody
            /\ UNCHANGED build_result
    /\ UNCHANGED <<flag_vars, lib_vars, task_vars, all_build_files, count_vars,
                   task_counter, pending_tasks, jobs_available, notified>>

\* The driver's await returns (or is skipped because the promise was
\* replaced by its value), and the tasks declared meanwhile are queued.
DriverResume ==
    /\ driver = "await"
    /\ CanRun(Driver)
    /\ driver_await_returns(driver_task)
    /\ \E order \in QueueOrders :
        /\ promise' = queue_promise(promise, order)
        /\ future' = queue_future(future, order)
        /\ pc' = queue_pc(pc, order)
        /\ queued_tasks' = queued_tasks \o order
    /\ pending_tasks' = <<>>
    /\ driver' = "loop"
    /\ driver_task' = 0
    /\ running' = Driver
    /\ UNCHANGED <<flag_vars, lib_vars, declared_by, reason, init_vars, config, walk_vars, cmd_vars, outcome,
                   count_vars, jobs_available, notified, build_result>>

\* A BaseException leaves run_until_complete (an interrupt of the process):
\* build logs it and returns its initial result, -1.
DriverRaise ==
    /\ LoopRunning
    /\ running = Nobody
    /\ driver' = "raised"
    /\ build_result' = <<-1>>
    /\ UNCHANGED <<flag_vars, lib_vars, task_vars, all_build_files, count_vars,
                   task_counter, pending_tasks, queued_tasks, jobs_available,
                   notified, running, driver_task>>

\* ------------------------------------------------------------------ run_async: errors

\* Handlers that catch a cancellation and nothing else.
except_clause_cancel_only(err) ==
    IF err \in CancelledError THEN "CancelledError" ELSE "none"

\* The except clause of run_async that catches `err`: the clauses are tried
\* in order, `except BaseException` first, `except asyncio.CancelledError`
\* second.
except_clause(err) ==
    IF err \in BaseException THEN "BaseException"
    ELSE IF err \in CancelledError THEN "CancelledError"
    ELSE "none"

\* What run_async returns from the clause that caught the error: both
\* clauses return a CancelledError object as the future's result.
except_result(clause) ==
    IF clause \in {"BaseException", "CancelledError"} THEN "Cancelled" ELSE "raise"

\* run_async ends with the error `err`: the clause that catches it counts the
\* task and the future of the task completes with the clause's result.
Raise(t, err) ==
    /\ pc' = [pc EXCEPT ![t] = "done"]
    /\ outcome' = [outcome EXCEPT ![t] = err]
    /\ future' = [future EXCEPT ![t] = except_result(except_clause(err))]
    /\ tasks_fail' = IF except_clause(err) = "BaseException"
                     THEN tasks_fail + 1 ELSE tasks_fail
    /\ tasks_cancel' = IF except_clause(err) = "CancelledError"
                       THEN tasks_cancel + 1 ELSE tasks_cancel
    /\ UNCHANGED <<tasks_pass, tasks_skip>>

\* ------------------------------------------------------------------ _await_variant

\* The Task handle the value-walk of t is at.
Leaf(t) == await_variant_tasks(config[t])[walk[t] + 1]

\* The awaitables of config[t] that are not Tasks, in the order of the walk.
Awaitables(t) == await_variant_leaves(config[t].items)

\* What the awaitable the value-walk of t is at resolves to.
Resolution(t) ==
    LET before == SubSeq(await_variant_tasks(config[t]), 1, walk[t])
        n == Cardinality({i \in 1..walk[t] : before[i] = RawAwaitable})
    IN resolves_to(Awaitables(t)[n + 1])

WalkDone(t) == walk[t] = Len(await_variant_tasks(config[t]))

RECURSIVE replace_leaves(_, _)
RECURSIVE replace_items(_, _)
\* The assignments of _await_variant, `variant[key] = await ...` and
\* `variant[index] = await ...`: `variant` after its first Len(values)
\* leaves got the values `values`.  Nothing is assigned inside a value that
\* an awaitable resolved to.
replace_leaves(variant, values) ==
    IF values = <<>> THEN variant
    ELSE IF variant.k \in {"task", "awaitable"} THEN Head(values)
    ELSE IF variant.k \in {"config", "dict", "list"}
    THEN [variant EXCEPT !.items = replace_items(variant.items, values)]
    ELSE variant

replace_items(items, values) ==
    IF items = <<>> THEN <<>>
    ELSE LET n == Len(await_variant_tasks(Head(items)))
             m == IF n < Len(values) THEN n ELSE Len(values)
         IN <<replace_leaves(Head(items), SubSeq(values, 1, m))>>
            \o replace_items(Tail(items), SubSeq(values, m + 1, Len(values)))

\* task.config as the value-walk of t has left it so far.
walked_config(t) == replace_leaves(config[t], awaited[t])

\* An await that returned whether or not the future has completed.
await_returns_at_once(d) == d \in Tasks
\* `await variant.promise` returns without waiting or, later, is resumed:
\* the producer's future has completed.
await_returns(d) == Done(d)

\* An await whose result replaces the producer's promise whatever it is, and
\* is raised afterwards if it is Cancelled.
AwaitedReplaces(t, d) ==
    /\ promise' = [promise EXCEPT ![d] = "Value"]
    /\ IF future[d] = "Cancelled"
       THEN /\ Raise(t, "CancelledError")
            /\ UNCHANGED walk_vars
       ELSE /\ walk' = [walk EXCEPT ![t] = walk[t] + 1]
            /\ awaited' = [awaited EXCEPT ![t] = Append(awaited[t], VTask(d))]
            /\ pc' = [pc EXCEPT ![t] = "walk"]
            /\ UNCHANGED <<future, outcome, tasks_pass, tasks_fail, tasks_skip,
                           tasks_cancel>>

\* The await of producer d's promise has returned in the walk of t.  A
\* Cancelled result is raised by _await_variant and ends the task in
\* run_async's handlers; any other result replaces the producer's promise and
\* the walk goes on.
Awaited(t, d) ==
    IF future[d] = "Cancelled"
    THEN /\ Raise(t, "CancelledError")
         /\ UNCHANGED <<promise, walk_vars>>
    ELSE /\ promise' = [promise EXCEPT ![d] = "Value"]
         /\ walk' = [walk EXCEPT ![t] = walk[t] + 1]
         /\ awaited' = [awaited EXCEPT ![t] = Append(awaited[t], VTask(d))]
         /\ pc' = [pc EXCEPT ![t] = "walk"]
         /\ UNCHANGED <<future, outcome, tasks_pass, tasks_fail, tasks_skip,
                        tasks_cancel>>

\* _await_variant reaches a Task handle: a producer that has no promise yet
\* is queued with everything pending; then an awaitable promise is awaited,
\* and a promise that is already a value is passed.
WalkTask(t) ==
    /\ LoopRunning
    /\ CanRun(t)
    /\ pc[t] = "walk"
    /\ ~WalkDone(t)
    /\ IF Leaf(t) = RawAwaitable
       THEN /\ pc' = [pc EXCEPT ![t] = "await"]
            /\ UNCHANGED <<promise, future, walk_vars, outcome, tasks_pass,
                           tasks_fail, tasks_skip, tasks_cancel, queued_tasks,
                           pending_tasks>>
       ELSE IF promise[Leaf(t)] = "None"
       THEN /\ \E order \in QueueOrders :
                /\ promise' = queue_promise(promise, order)
                /\ future' = queue_future(future, order)
                /\ pc' = [queue_pc(pc, order) EXCEPT ![t] = "await"]
                /\ queued_tasks' = queued_tasks \o order
            /\ pending_tasks' = <<>>
            /\ UNCHANGED <<walk_vars, outcome, tasks_pass, tasks_fail,
                           tasks_skip, tasks_cancel>>
       ELSE /\ IF promise[Leaf(t)] = "Future"
               THEN IF await_returns(Leaf(t))
                    THEN Awaited(t, Leaf(t))
                    ELSE /\ pc' = [pc EXCEPT ![t] = "await"]
                         /\ UNCHANGED <<promise, future, walk_vars, outcome,
                                        tasks_pass, tasks_fail, tasks_skip,
                                        tasks_cancel>>
               ELSE /\ walk' = [walk EXCEPT ![t] = walk[t] + 1]
                    /\ awaited' = [awaited EXCEPT
                                      ![t] = Append(awaited[t], VTask(Leaf(t)))]
                    /\ UNCHANGED <<promise, future, pc, outcome, tasks_pass,
                                   tasks_fail, tasks_skip, tasks_cancel>>
            /\ UNCHANGED <<queued_tasks, pending_tasks>>
    /\ KeepsRunning(t)
    /\ UNCHANGED <<flag_vars, lib_vars, declared_by, reason, init_vars, config, cmd_vars, tasks_total,
                   jobs_available, notified, driver_vars>>

\* The walk of t is resumed when what it awaits completes: a producer's
\* future with its result, any other awaitable with a value or by raising.
AwaitReturn(t) ==
    /\ LoopRunning
    /\ CanRun(t)
    /\ pc[t] = "await"
    /\ IF Leaf(t) = RawAwaitable
       THEN \E raised \in BOOLEAN :
              IF raised
              THEN /\ Raise(t, "AwaitError")
                   /\ UNCHANGED <<promise, walk_vars>>
              ELSE /\ walk' = [walk EXCEPT ![t] = walk[t] + 1]
                   /\ awaited' = [awaited EXCEPT
                                     ![t] = Append(awaited[t], Resolution(t))]
                   /\ pc' = [pc EXCEPT ![t] = "walk"]
                   /\ UNCHANGED <<promise, future, outcome, tasks_pass,
                                  tasks_fail, tasks_skip, tasks_cancel>>
       ELSE /\ await_returns(Leaf(t))
            /\ Awaited(t, Leaf(t))
    /\ KeepsRunning(t)
    /\ UNCHANGED <<flag_vars, lib_vars, declared_by, reason, init_vars, config, cmd_vars, tasks_total,
                   pending_tasks, queued_tasks, jobs_available, notified,
                   driver_vars>>

\* ------------------------------------------------------------------ task_init

\* A registration loop that adds every file without looking it up.
register_build_files_unchecked(files, abf, added) ==
    [ok |-> TRUE,
     abf |-> abf \cup {files[i] : i \in DOMAIN files},
     added |-> added \cup {files[i] : i \in DOMAIN files}]

RECURSIVE register_build_files(_, _, _)
\* The loop of task_init over action.abs_build_files: a file that is already
\* in all_build_files raises, any other is added.  `abf` is all_build_files
\* so far, `added` what this call has added.
register_build_files(files, abf, added) ==
    IF files = <<>> THEN [ok |-> TRUE, abf |-> abf, added |-> added]
    ELSE IF Head(files) \in abf
         THEN [ok |-> FALSE, abf |-> abf, added |-> added]
         ELSE register_build_files(Tail(files), abf \cup {Head(files)},
                                   added \cup {Head(files)})

\* The build file lists a description of the kind `which` may give task t:
\* none, one file of its own, or any list over two files, also one that names
\* a file twice.
BuildFileLists(which, t) ==
    CASE which = "none" -> {<<>>}
      [] which = "own" -> {<<OwnFile(t)>>}
      [] OTHER -> {<<>>, <<FileF>>, <<FileG>>, <<FileF, FileG>>,
                   <<FileG, FileF>>, <<FileF, FileF>>}

\* The check of abs_build_path against Config.root_path.
path_under_root(path) == startswith(path, root_path)

\* A task_init that makes the output directories before it looks for
\* duplicate outputs.
task_init_dirs_first(pre, path, files, cfg_dry_run, abf) ==
    IF pre # "ok"
    THEN [err |-> pre, abf |-> abf, added |-> {}, path |-> <<>>,
          files |-> <<>>, dirs |-> FALSE]
    ELSE IF ~path_under_root(path)
    THEN [err |-> "PathEscape", abf |-> abf, added |-> {}, path |-> path,
          files |-> files, dirs |-> FALSE]
    ELSE LET r == register_build_files(files, abf, {}) IN
         [err |-> IF r.ok THEN "" ELSE "DuplicateOutput", abf |-> r.abf,
          added |-> r.added, path |-> path, files |-> files,
          dirs |-> (~cfg_dry_run /\ files # <<>>)]

\* task_init, for a task whose expansions and strict paths end as `pre`
\* ("ok" or the error they raise), whose build path and build files are
\* `path` and `files` and whose config.dry_run is `cfg_dry_run`; `abf` is
\* all_build_files.  The result: the error raised ("" for none),
\* all_build_files afterwards, the paths the task added, the values assigned
\* to action.abs_build_path and action.abs_build_files, and whether
\* directories were made.
task_init(pre, path, files, cfg_dry_run, abf) ==
    IF pre # "ok"
    THEN [err |-> pre, abf |-> abf, added |-> {}, path |-> <<>>,
          files |-> <<>>, dirs |-> FALSE]
    ELSE IF ~path_under_root(path)
    THEN [err |-> "PathEscape", abf |-> abf, added |-> {}, path |-> path,
          files |-> files, dirs |-> FALSE]
    ELSE LET r == register_build_files(files, abf, {}) IN
         IF ~r.ok
         THEN [err |-> "DuplicateOutput", abf |-> r.abf, added |-> r.added,
               path |-> path, files |-> files, dirs |-> FALSE]
         ELSE [err |-> "", abf |-> r.abf, added |-> r.added, path |-> path,
               files |-> files, dirs |-> (~cfg_dry_run /\ files # <<>>)]

\* run_async after the value-walk returned: task_init runs synchronously.
\* action.job_count is kept for run_commands when task_init returns.
TaskInit(t) ==
    /\ LoopRunning
    /\ CanRun(t)
    /\ pc[t] = "walk"
    /\ WalkDone(t)
    /\ task_counter' = task_counter + 1
    /\ \E pre \in description.strict_paths,
          path \in description.build_paths,
          files \in BuildFileLists(description.build_files, t),
          cfg_dry_run \in description.dry_runs \cup {dry_run},
          jc \in description.job_counts :
        LET r == task_init(pre, path, files, cfg_dry_run, all_build_files) IN
        /\ all_build_files' = r.abf
        /\ registered' = [registered EXCEPT ![t] = r.added]
        /\ abs_build_path' = [abs_build_path EXCEPT ![t] = r.path]
        /\ abs_build_files' = [abs_build_files EXCEPT ![t] = r.files]
        /\ made_dirs' = IF r.dirs THEN made_dirs \cup {t} ELSE made_dirs
        /\ config_dry_run' = [config_dry_run EXCEPT ![t] = cfg_dry_run]
        /\ IF r.err # ""
           THEN /\ Raise(t, r.err)
                /\ UNCHANGED job_count
           ELSE /\ job_count' = [job_count EXCEPT ![t] = jc]
                /\ pc' = [pc EXCEPT ![t] = "rerun"]
                /\ UNCHANGED <<future, outcome, tasks_pass, tasks_fail,
                               tasks_skip, tasks_cancel>>
    /\ KeepsRunning(t)
    /\ UNCHANGED <<flag_vars, lib_vars, declared_by, reason, config, promise, walk_vars, cmd_vars, tasks_total,
                   pending_tasks, queued_tasks, jobs_available, notified,
                   driver_vars>>

\* ------------------------------------------------------------------ needs_rerun

SourceFile == <<"s">>
CommandFile == <<"c">>
ModuleFile == <<"m">>
HeaderFile == <<"h">>

Range(s) == {s[i] : i \in 1..Len(s)}

\* min(_mtime(f) for f in files)
MinMtime(files, mtime) ==
    CHOOSE m \in {mtime[f] : f \in files} : \A f \in files : m <= mtime[f]

\* A comparison that takes a file of the same age as the oldest output for
\* unchanged.
changed_strictly(file_mtime, min_out) == file_mtime > min_out

\* `_mtime(abs_file) >= min_out`
changed(file_mtime, min_out) == file_mtime >= min_out

\* An existence check that finds every file.
missing_never(builds, mtime) == builds # builds

\* The loop over abs_build_files with path.exists: some build file is missing
\* (a file that does not exist has mtime 0 in `mtime`).
missing(builds, mtime) == \E i \in 1..Len(builds) : mtime[builds[i]] = 0

RECURSIVE first_changed(_, _, _)
\* A loop `for abs_file in files: if _mtime(abs_file) >= min_out: return`:
\* "changed" when it returns, "" when it ends, and the error of os.stat when
\* it reaches a file that does not exist.
first_changed(files, min_out, mtime) ==
    IF files = <<>> THEN ""
    ELSE IF mtime[Head(files)] = 0 THEN "FileNotFoundError"
    ELSE IF changed(mtime[Head(files)], min_out) THEN "changed"
    ELSE first_changed(Tail(files), min_out, mtime)

\* needs_rerun: the reason to rebuild, "" for none, or the error raised.
\* `sources` are action.abs_source_files, `builds` action.abs_build_files,
\* `others` the command files followed by the loaded modules, `depfile` the
\* format of the depfile that exists ("none" if there is none), `deps` the
\* files it lists, `mtime` the modification time of each file, 0 for a file
\* that does not exist.
needs_rerun(force, sources, builds, others, depfile, deps, mtime) ==
    IF force THEN [raise |-> "", reason |-> "forced"]
    ELSE IF sources = <<>> THEN [raise |-> "", reason |-> "no inputs"]
    ELSE IF builds = <<>> THEN [raise |-> "", reason |-> "no outputs"]
    ELSE IF missing(builds, mtime)
    THEN [raise |-> "", reason |-> "missing"]
    ELSE IF \E f \in Range(builds) : mtime[f] = 0
    THEN [raise |-> "FileNotFoundError", reason |-> ""]
    ELSE LET min_out == MinMtime(Range(builds), mtime)
             inputs == first_changed(sources \o others, min_out, mtime)
             listed == first_changed(deps, min_out, mtime)
         IN IF inputs = "changed" THEN [raise |-> "", reason |-> "changed"]
            ELSE IF inputs # "" THEN [raise |-> inputs, reason |-> ""]
            ELSE IF depfile = "none" THEN [raise |-> "", reason |-> ""]
            ELSE IF depfile \notin {"gcc", "msvc"}
            THEN [raise |-> "InvalidDepFormat", reason |-> ""]
            ELSE IF listed = "changed" THEN [raise |-> "", reason |-> "changed"]
            ELSE IF listed # "" THEN [raise |-> listed, reason |-> ""]
            ELSE [raise |-> "", reason |-> ""]

\* What needs_rerun finds on disk for a task with the build files `builds`:
\* its source files, the depfile, and the modification times.  "few" has one
\* environment in which everything is older than the build files and one in
\* which the source is as new as a build file, with a depfile of each kind;
\* "all" has every combination of times.
Environments(which, builds) ==
    LET Inputs == {SourceFile, CommandFile, ModuleFile, HeaderFile} IN
    IF which = "few"
    THEN {[sources |-> <<SourceFile>>, depfile |-> d,
           mtime |-> [f \in Inputs \cup builds |->
                         IF f \in builds THEN 2 ELSE IF f = SourceFile THEN m ELSE 1]] :
              d \in {"none", "gcc", "other"}, m \in {1, 2}}
    ELSE {[sources |-> s, depfile |-> d, mtime |-> m] :
              s \in {<<>>, <<SourceFile>>},
              d \in {"none", "gcc", "msvc", "other"},
              m \in {f \in [Inputs \cup builds -> 0..MaxTime] :
                        \A i \in Inputs : f[i] > 0}}

\* The files of a call of needs_rerun.
StaleFiles == {SourceFile, CommandFile, ModuleFile, HeaderFile, FileF, FileG}

\* The calls of needs_rerun: a task forced or not, with and without source
\* files, with no, one and two build files, a depfile of each format or
\* none, and every assignment of modification times in which the source
\* file, the command file and the loaded module exist (task_init and
\* load_module resolved them strictly); build files and the file a depfile
\* lists may be missing.
StaleInputs ==
    {[force |-> f, sources |-> s, builds |-> b, depfile |-> d, mtime |-> m] :
        f \in BOOLEAN,
        s \in {<<>>, <<SourceFile>>},
        b \in {<<>>, <<FileF>>, <<FileF, FileG>>},
        d \in {"none", "gcc", "msvc", "other"},
        m \in {g \in [StaleFiles -> 0..MaxTime] :
                  \A i \in {SourceFile, CommandFile, ModuleFile} : g[i] > 0}}

\* needs_rerun is called and returns or raises.
CallNeedsRerun ==
    /\ stale_in \in StaleInputs
    /\ stale_out = NotCalled
    /\ stale_out' = needs_rerun(stale_in.force, stale_in.sources,
                                stale_in.builds, <<CommandFile, ModuleFile>>,
                                stale_in.depfile, <<HeaderFile>>,
                                stale_in.mtime)
    /\ UNCHANGED <<app_vars, dir_vars, stale_in, expand_in, expand_out,
                   expand_again>>

\* What the description fixes about task t beforehand: "any" leaves the files
\* on disk and the commands' return codes open, "skip" is a task whose
\* outputs are up to date, "pass" a stale task whose commands succeed, and
\* "fail" a stale task whose command fails.
Fates == {"pass", "skip", "fail"}

\* What needs_rerun may find on disk for task t.
TaskEnvironments(t) ==
    LET all == Environments(description.environments, Range(abs_build_files[t]))
        source_time == IF description.fates[t] = "skip" THEN {1} ELSE {2}
    IN IF description.fates[t] = "any" THEN all
       ELSE {env \in all : /\ env.depfile = "none"
                           /\ env.sources = <<SourceFile>>
                           /\ env.mtime[SourceFile] \in source_time}

\* The return codes a subprocess of task t may end with.
ReturnCodes(t) ==
    CASE description.fates[t] = "pass" -> {0}
      [] description.fates[t] = "fail" -> {1}
      [] OTHER -> {0, 1}

\* A test of the reason that sends every task into run_commands.
runs_commands_always(why) == why \in {"", "forced", "no inputs", "no outputs", "missing", "changed"}

\* `if self.reason:` in run_async: a reason that is not empty is true.
runs_commands(why) == why # ""

\* run_async checks staleness: an up-to-date task is counted as skipped and
\* its future completes with abs_build_files; a stale one enters
\* run_commands; an error of needs_rerun ends the task.
NeedsRerun(t) ==
    /\ LoopRunning
    /\ CanRun(t)
    /\ pc[t] = "rerun"
    /\ \E force \in description.force,
          env \in TaskEnvironments(t) :
        LET r == needs_rerun(force, env.sources, abs_build_files[t],
                             <<CommandFile, ModuleFile>>, env.depfile,
                             <<HeaderFile>>, env.mtime) IN
        IF r.raise # ""
        THEN /\ Raise(t, r.raise)
             /\ UNCHANGED reason
        ELSE /\ reason' = [reason EXCEPT ![t] = r.reason]
             /\ IF runs_commands(r.reason)
                THEN /\ pc' = [pc EXCEPT ![t] = "acquire"]
                     /\ UNCHANGED <<future, outcome, tasks_pass, tasks_fail,
                                    tasks_skip, tasks_cancel>>
                ELSE /\ pc' = [pc EXCEPT ![t] = "done"]
                     /\ future' = [future EXCEPT ![t] = "files"]
                     /\ outcome' = [outcome EXCEPT ![t] = "skip"]
                     /\ tasks_skip' = tasks_skip + 1
                     /\ UNCHANGED <<tasks_pass, tasks_fail, tasks_cancel>>
    /\ KeepsRunning(t)
    /\ UNCHANGED <<flag_vars, lib_vars, declared_by, init_vars, config, promise,
                   walk_vars, cmd_vars, tasks_total, pending_tasks, queued_tasks,
                   jobs_available, notified, driver_vars>>

\* ------------------------------------------------------------------ job pool

\* The tasks waiting in jobs_lock.wait_for.
Waiters == {t \in Tasks : pc[t] = "wait_jobs"}

\* A release that returns the jobs and wakes nobody.
release_jobs_silent(count) ==
    /\ jobs_available' = jobs_available + count
    /\ notified' = notified

\* release_jobs: the jobs go back to the pool and every waiter is notified.
release_jobs(count) ==
    /\ jobs_available' = jobs_available + count
    /\ notified' = Waiters

\* A check that lets a request of one job too many through.
job_overflow_lenient(count) == count > jobs + 1

\* acquire_jobs raises when the request exceeds the pool.
job_overflow(count) == count > jobs

\* run_commands calls acquire_jobs.  A request larger than Config.jobs
\* raises; the finally clause of run_commands then calls release_jobs and the
\* error ends the task.  Otherwise the jobs are taken if the pool has them,
\* and the task waits on the condition if not.
AcquireJobs(t) ==
    /\ LoopRunning
    /\ CanRun(t)
    /\ pc[t] = "acquire"
    /\ IF job_overflow(job_count[t])
       THEN /\ release_jobs(job_count[t])
            /\ Raise(t, "JobOverflow")
       ELSE /\ IF jobs_available >= job_count[t]
               THEN /\ jobs_available' = jobs_available - job_count[t]
                    /\ pc' = [pc EXCEPT ![t] = "run"]
               ELSE /\ pc' = [pc EXCEPT ![t] = "wait_jobs"]
                    /\ UNCHANGED jobs_available
            /\ UNCHANGED <<notified, future, outcome, tasks_pass, tasks_fail,
                           tasks_skip, tasks_cancel>>
    /\ KeepsRunning(t)
    /\ UNCHANGED <<flag_vars, lib_vars, declared_by, reason, init_vars, config, promise, walk_vars, cmd_vars,
                   tasks_total, pending_tasks, queued_tasks, driver_vars>>

\* A notified waiter wakes in wait_for and rechecks its predicate.
JobsNotified(t) ==
    /\ LoopRunning
    /\ CanRun(t)
    /\ pc[t] = "wait_jobs"
    /\ t \in notified
    /\ notified' = notified \ {t}
    /\ IF jobs_available >= job_count[t]
       THEN /\ jobs_available' = jobs_available - job_count[t]
            /\ pc' = [pc EXCEPT ![t] = "run"]
       ELSE UNCHANGED <<jobs_available, pc>>
    /\ KeepsRunning(t)
    /\ UNCHANGED <<flag_vars, lib_vars, declared_by, reason, init_vars, config, promise, future, walk_vars,
                   cmd_vars, outcome, count_vars, pending_tasks,
                   queued_tasks, driver_vars>>

\* ------------------------------------------------------------------ run_commands

\* A task between its acquire_jobs and its release_jobs.
InCommands(t) == pc[t] \in {"run", "subproc"}

\* A run_async that returns the result of run_commands and counts nothing.
PassUncounted(t) ==
    /\ release_jobs(job_count[t])
    /\ pc' = [pc EXCEPT ![t] = "done"]
    /\ future' = [future EXCEPT ![t] = "files"]
    /\ outcome' = [outcome EXCEPT ![t] = "pass"]
    /\ UNCHANGED <<tasks_pass, tasks_fail, tasks_skip, tasks_cancel>>

\* run_async after run_commands returned: the finally clause released the
\* jobs, the task is counted as passed and its future completes.
Pass(t) ==
    /\ release_jobs(job_count[t])
    /\ pc' = [pc EXCEPT ![t] = "done"]
    /\ future' = [future EXCEPT ![t] = "files"]
    /\ outcome' = [outcome EXCEPT ![t] = "pass"]
    /\ tasks_pass' = tasks_pass + 1
    /\ UNCHANGED <<tasks_fail, tasks_skip, tasks_cancel>>

\* An error inside the try of run_commands: the finally clause releases the
\* jobs and the error ends the task.
CommandError(t, err) ==
    /\ release_jobs(job_count[t])
    /\ Raise(t, err)

\* `result = await self.run_command(exp_command)`: the entry numbered
\* `entry` has returned `value`.
CommandReturns(t, entry, value) ==
    result' = [result EXCEPT ![t] = [entry |-> entry, value |-> value]]

\* The tasks whose value-walk has not passed a leaf yet.
Unwalked == {u \in Tasks : pc[u] \in {"pending", "walk"} /\ walk[u] = 0}

\* `u.config.field = task`: the config of u gets one more field, which
\* holds the handle of task d.
assign_field(c, u, d) ==
    [c EXCEPT ![u] = [@ EXCEPT !.items = Append(@, VTask(d))]]

\* The loop of run_commands takes the next entry of action.command and calls
\* run_command: a dry run returns at once; a callback is called; an entry
\* that is neither callable nor a string raises; a string spawns a
\* subprocess, which the task awaits.  The callback may raise, it may
\* declare a task (Task.__init__), and it may assign the task it declares
\* to a field of a task whose value-walk has yet to begin.
RunCommand(t) ==
    /\ LoopRunning
    /\ CanRun(t)
    /\ pc[t] = "run"
    /\ cmd_index[t] < description.commands_max
    /\ cmd_index' = [cmd_index EXCEPT ![t] = cmd_index[t] + 1]
    /\ \E entry \in description.commands :
        IF dry_run
        THEN /\ CommandReturns(t, cmd_index[t] + 1, "abs_build_files")
             /\ UNCHANGED <<pc, future, outcome, count_vars, config,
                            pending_tasks, jobs_available, notified, declared_by>>
        ELSE CASE entry = "str" ->
                    /\ pc' = [pc EXCEPT ![t] = "subproc"]
                    /\ UNCHANGED <<future, outcome, count_vars, config,
                                   pending_tasks, jobs_available, notified,
                                   declared_by, result>>
               [] entry = "callback returns" ->
                    /\ CommandReturns(t, cmd_index[t] + 1, "returned by callback")
                    /\ UNCHANGED <<pc, future, outcome, count_vars, config,
                                   pending_tasks, jobs_available, notified,
                                   declared_by>>
               [] entry = "callback declares" ->
                    /\ NewTask \in 1..description.tasks
                    /\ \E c \in TaskConfigs(NewTask, description.shapes) :
                           config' = [config EXCEPT ![NewTask] = c]
                    /\ pc' = [pc EXCEPT ![NewTask] = "pending"]
                    /\ tasks_total' = tasks_total + 1
                    /\ pending_tasks' = Append(pending_tasks, NewTask)
                    /\ declared_by' = [declared_by EXCEPT ![NewTask] = "callback"]
                    /\ CommandReturns(t, cmd_index[t] + 1, "returned by callback")
                    /\ UNCHANGED <<future, outcome, tasks_pass, tasks_fail,
                                   tasks_skip, tasks_cancel, jobs_available,
                                   notified>>
               [] entry = "callback assigns" ->
                    /\ NewTask \in 1..description.tasks
                    /\ \E c \in TaskConfigs(NewTask, description.shapes),
                          u \in Unwalked :
                           config' = assign_field([config EXCEPT ![NewTask] = c],
                                                  u, NewTask)
                    /\ pc' = [pc EXCEPT ![NewTask] = "pending"]
                    /\ tasks_total' = tasks_total + 1
                    /\ pending_tasks' = Append(pending_tasks, NewTask)
                    /\ declared_by' = [declared_by EXCEPT ![NewTask] = "callback"]
                    /\ CommandReturns(t, cmd_index[t] + 1, "returned by callback")
                    /\ UNCHANGED <<future, outcome, tasks_pass, tasks_fail,
                                   tasks_skip, tasks_cancel, jobs_available,
                                   notified>>
               [] entry = "callback raises" ->
                    /\ CommandError(t, "CallbackError")
                    /\ UNCHANGED <<tasks_total, config, pending_tasks,
                                   declared_by, result>>
               [] entry = "invalid" ->
                    /\ CommandError(t, "InvalidCommand")
                    /\ UNCHANGED <<tasks_total, config, pending_tasks,
                                   declared_by, result>>
    /\ KeepsRunning(t)
    /\ UNCHANGED <<flag_vars, lib_vars, reason, init_vars, promise, walk_vars,
                   queued_tasks, driver_vars, returncode>>

\* A check of the return code that lets every subprocess pass.
returncode_raises_never(code) == code # code

\* `if self.returncode:` in run_command: a return code that is not zero
\* raises.
returncode_raises(code) == code # 0

\* The subprocess of a command ends and run_command stores its return code:
\* a return code of zero returns the build files and lets the loop go on,
\* any other raises.
SubprocessExit(t) ==
    /\ LoopRunning
    /\ CanRun(t)
    /\ pc[t] = "subproc"
    /\ \E code \in ReturnCodes(t) :
        /\ returncode' = [returncode EXCEPT ![t] = code]
        /\ IF returncode_raises(code)
           THEN /\ CommandError(t, "CommandFailed")
                /\ UNCHANGED result
           ELSE /\ pc' = [pc EXCEPT ![t] = "run"]
                /\ CommandReturns(t, cmd_index[t], "abs_build_files")
                /\ UNCHANGED <<future, outcome, tasks_pass, tasks_fail,
                               tasks_skip, tasks_cancel, jobs_available,
                               notified>>
    /\ KeepsRunning(t)
    /\ UNCHANGED <<flag_vars, lib_vars, declared_by, reason, init_vars, config,
                   promise, walk_vars, cmd_index, tasks_total, pending_tasks,
                   queued_tasks, driver_vars>>

\* The lengths action.command of task t may have.
CommandCounts(t) ==
    IF description.fates[t] = "any" THEN 0..description.commands_max
    ELSE {description.commands_max}

\* The loop of run_commands has run every entry of action.command:
\* run_commands returns and the task passes.
CommandsDone(t) ==
    /\ LoopRunning
    /\ CanRun(t)
    /\ pc[t] = "run"
    /\ cmd_index[t] \in CommandCounts(t)
    /\ Pass(t)
    /\ KeepsRunning(t)
    /\ UNCHANGED <<flag_vars, lib_vars, declared_by, reason, init_vars, config, promise, walk_vars, cmd_vars,
                   tasks_total, pending_tasks, queued_tasks, driver_vars>>

\* ------------------------------------------------------------------ expand

\* Values of config fields as expand distinguishes them: a string is the
\* sequence of its characters, an int its number, a list its elements.
VText(chars) == [k |-> "str", id |-> 0, items |-> chars]
VInt(n) == [k |-> "int", id |-> n, items |-> <<>>]

MAX_EXPAND_DEPTH == 20

\* macro_regex "^{[^}]*}$" matches: the string is one macro.
macro_regex(s) ==
    /\ Len(s) >= 2
    /\ s[1] = "{"
    /\ s[Len(s)] = "}"
    /\ \A i \in 2..(Len(s) - 1) : s[i] # "}"

\* template_regex "{[^}]*}" searched in s: <<first, last>> of the leftmost
\* match, <<>> if there is none.  [^}]* may run over "{", so the match
\* starts at the first "{" and ends at the first "}" after it.
template_regex(s) ==
    LET opens == {i \in 1..Len(s) : s[i] = "{"}
        first == CHOOSE i \in opens : \A j \in opens : i <= j
        closes == {i \in 1..Len(s) : s[i] = "}" /\ i > first}
    IN IF opens = {} \/ closes = {} THEN <<>>
       ELSE <<first, CHOOSE i \in closes : \A j \in closes : i <= j>>

RECURSIVE flatten(_)
\* _flatten: the leaves of nested lists, depth first.
flatten(variant) ==
    IF variant.k # "list" THEN <<variant>>
    ELSE IF variant.items = <<>> THEN <<>>
    ELSE flatten(Head(variant.items)) \o flatten(VList(Tail(variant.items)))

\* str() of a leaf: a string is itself, an int (one digit here) its numeral.
str(leaf) ==
    IF leaf.k = "int"
    THEN <<(<<"0", "1", "2", "3", "4", "5", "6", "7", "8", "9">>)[leaf.id + 1]>>
    ELSE leaf.items

RECURSIVE join(_)
\* " ".join([str(s) for s in leaves])
join(leaves) ==
    IF leaves = <<>> THEN <<>>
    ELSE IF Len(leaves) = 1 THEN str(Head(leaves))
    ELSE str(Head(leaves)) \o <<" ">> \o join(Tail(leaves))

\* The other variants expand distinguishes: None, a bool, a float, a
\* function, an exception, a value of a type it does not know (bytes, a
\* tuple, a set), and a Task handle with the value of its promise.
VNone == [k |-> "none", id |-> 0, items |-> <<>>]
VBool(b) == [k |-> "bool", id |-> IF b THEN 1 ELSE 0, items |-> <<>>]
VFloat == [k |-> "float", id |-> 0, items |-> <<>>]
VFunction == [k |-> "function", id |-> 0, items |-> <<>>]
VException == [k |-> "exception", id |-> 0, items |-> <<>>]
VObject == [k |-> "object", id |-> 0, items |-> <<>>]
VHandle(value) == [k |-> "task", id |-> 0, items |-> <<value>>]

\* The result of an expansion started with the depth counter at `depth`:
\* the value returned, or the error raised and, for a RecursionError, the
\* value of the counter when it was raised; `peak` is the largest value the
\* counter took and `left` the value the call left it at.
Returns(val, peak, left) ==
    [err |-> "", val |-> val, peak |-> peak, at |-> 0, left |-> left]
Raises(err, peak, at, left) ==
    [err |-> err, val |-> VStr, peak |-> peak, at |-> at, left |-> left]
Deeper(r, depth) == [r EXCEPT !.peak = IF depth > r.peak THEN depth ELSE r.peak]

\* An exit that lowers the counter only when no error leaves the call.
eval_macro_exit_on_return(r, depth, fail_ok) ==
    LET peak == IF depth > r.peak THEN depth ELSE r.peak IN
    IF r.err = "" THEN [r EXCEPT !.peak = peak, !.left = r.left - 1]
    ELSE IF fail_ok THEN Returns(VText(<<>>), peak, r.left - 1)
    ELSE [r EXCEPT !.peak = peak]

\* The except and finally clauses of eval_macro, for a body that ran with
\* the counter at `depth` and ended as `r`: with fail_ok an error of the
\* body is dropped and the initial result, "", is returned, otherwise it is
\* raised again; the counter goes down by one however the body ended.
eval_macro_exit(r, depth, fail_ok) ==
    LET peak == IF depth > r.peak THEN depth ELSE r.peak IN
    IF r.err # "" /\ fail_ok THEN Returns(VText(<<>>), peak, r.left - 1)
    ELSE [r EXCEPT !.peak = peak, !.left = r.left - 1]

\* A guard that already refuses the limit itself.
too_deep_at_limit(depth) == depth >= MAX_EXPAND_DEPTH

\* A guard that lets one more level through.
too_deep_later(depth) == depth > MAX_EXPAND_DEPTH + 1

\* `if app.expand_depth > MAX_EXPAND_DEPTH` in eval_macro
too_deep(depth) == depth > MAX_EXPAND_DEPTH

RECURSIVE expand(_, _, _, _)
RECURSIVE expand_list(_, _, _)
RECURSIVE expand_template(_, _, _, _)
RECURSIVE eval_macro(_, _, _, _)

\* expand, called with app.expand_depth = depth: a Config and a dict are
\* returned as they are, an exception is raised, a Task handle stands for
\* its promise, a list is expanded element by element, a string that is one
\* macro is evaluated, a string that holds a macro is expanded as a
\* template (expand_template raises the counter, runs its loop and lowers
\* the counter in its finally clause), an int, bool, float, any other
\* string and a function are returned as they are, and anything else
\* raises ValueError.  `scope` is the config: it maps field names to values.
expand(scope, variant, depth, fail_ok) ==
    IF variant.k \in {"config", "dict"} THEN Returns(variant, depth, depth)
    ELSE IF variant.k = "exception" THEN Raises("Raised", depth, 0, depth)
    ELSE IF variant.k = "task"
    THEN expand(scope, IF variant.items = <<>> THEN VNone ELSE variant.items[1],
                depth, fail_ok)
    ELSE IF variant.k = "list" THEN expand_list(scope, variant.items, depth)
    ELSE IF variant.k = "str" /\ macro_regex(variant.items)
    THEN eval_macro(scope, variant.items, depth, fail_ok)
    ELSE IF variant.k = "str" /\ template_regex(variant.items) # <<>>
    THEN LET r == expand_template(scope, variant.items, depth + 1, fail_ok)
         IN IF r.err = "" THEN Returns(VText(r.val), r.peak, r.left - 1)
            ELSE [r EXCEPT !.left = r.left - 1]
    ELSE IF variant.k \in {"int", "bool", "float", "str", "staticmethod",
                           "function"}
    THEN Returns(variant, depth, depth)
    ELSE Raises("ValueError", depth, 0, depth)

\* [expand(config, s) for s in variant]: each element is expanded with the
\* counter as the element before left it, and without fail_ok.
expand_list(scope, items, depth) ==
    IF items = <<>> THEN Returns(VList(<<>>), depth, depth)
    ELSE LET head == expand(scope, Head(items), depth, FALSE) IN
         IF head.err # "" THEN head
         ELSE LET tail == expand_list(scope, Tail(items), head.left) IN
              IF tail.err # "" THEN Deeper(tail, head.peak)
              ELSE Deeper(Returns(VList(<<head.val>> \o tail.val.items),
                                  tail.peak, tail.left), head.peak)

\* The loop of expand_template, with the counter already raised to `depth`:
\* the text before the leftmost macro, the macro's value joined as strings,
\* and the rest of the template treated the same way.  The value returned
\* here is the text.
expand_template(scope, template, depth, fail_ok) ==
    LET span == template_regex(template) IN
    IF span = <<>> THEN Returns(template, depth, depth)
    ELSE LET variant == eval_macro(scope, SubSeq(template, span[1], span[2]),
                                   depth, fail_ok) IN
         IF variant.err # "" THEN variant
         ELSE LET rest == expand_template(scope,
                              SubSeq(template, span[2] + 1, Len(template)),
                              variant.left, fail_ok) IN
              IF rest.err # "" THEN Deeper(rest, variant.peak)
              ELSE Deeper(Returns(SubSeq(template, 1, span[1] - 1)
                                  \o join(flatten(variant.val)) \o rest.val,
                                  rest.peak, rest.left), variant.peak)

\* eval_macro: refuses when the counter is past the limit; otherwise raises
\* the counter and evaluates the text between the braces with the config's
\* fields as names, and lowers the counter in its finally clause.  A name
\* of a field gives the field's value expanded (Expander.get, which does not
\* pass fail_ok on), a digit the number; any other text of the alphabet here
\* makes eval raise (SyntaxError, AttributeError).
eval_macro(scope, macro, depth, fail_ok) ==
    LET name == SubSeq(macro, 2, Len(macro) - 1) IN
    IF too_deep(depth) THEN Raises("RecursionError", depth, depth, depth)
    ELSE eval_macro_exit(
        IF name \in DOMAIN scope
        THEN expand(scope, scope[name], depth + 1, FALSE)
        ELSE IF Len(name) = 1 /\ name[1] \in {"0", "1", "2", "3", "4", "5", "6", "7", "8", "9"}
        THEN Returns(VInt(CHOOSE n \in 0..9 : str(VInt(n)) = name), depth + 1,
                     depth + 1)
        ELSE Raises("EvalError", depth + 1, 0, depth + 1),
        depth + 1, fail_ok)

\* The field names of a chain: f, ff, fff, ...
Field(i) == [j \in 1..i |-> "f"]

\* Link i of a chain of kind `kind` is a pure macro, not a template.
Pure(kind, i) == kind = "macro" \/ (kind = "mixed" /\ i % 3 = 1)

\* A chain of n fields: field i refers to field i + 1 by a pure macro
\* "{ff}" or by a template "{ff}y"; the last field is "x" (back = 0) or
\* refers back to field `back`, which closes a cycle.  The kind "mixed" with
\* three fields and back = 1 is a = "{c}", c = "{b}y", b = "{a}y".
ChainScope(n, kind, back) ==
    [name \in {Field(i) : i \in 1..n} |->
        LET i == Len(name)
            to == IF i < n THEN i + 1 ELSE back
        IN IF to = 0 THEN VText(<<"x">>)
           ELSE VText(<<"{">> \o Field(to) \o <<"}">>
                      \o IF Pure(kind, i) THEN <<>> ELSE <<"y">>)]

\* config.expand(config.f): the calls of expand on one of the first three
\* fields of a chain, for every length, kind and way to end it.
ChainInputs ==
    UNION {{[family |-> "chain", fields |-> n, kind |-> kind, back |-> back,
             start |-> first, scope |-> ChainScope(n, kind, back),
             value |-> ChainScope(n, kind, back)[Field(first)],
             fail_ok |-> FALSE] :
               kind \in {"macro", "template", "mixed"},
               back \in {0, 1, n - 1, n} \cap 0..n,
               first \in 1..3 \cap 1..n} : n \in 1..MaxChain}

\* The strings of at most MaxText characters over braces and the field names.
Texts == UNION {[1..n -> {"{", "}", "a", "b"}] : n \in 0..MaxText}

\* The calls of expand on an int, a string, and a list with a nested list,
\* in configs without reference cycles: the field a is a string without
\* macro or an int, the field b a string without macro or a template that
\* refers to a.
TextInputs ==
    {[family |-> "text", fields |-> 2, kind |-> "none", back |-> 0,
      start |-> 0, scope |-> (<<"a">> :> a @@ <<"b">> :> b), value |-> v,
      fail_ok |-> FALSE] :
        a \in {VText(<<"x">>), VText(<<"{">>), VInt(5)},
        b \in {VText(<<"}">>), VText(<<"a", "}">>), VText(<<"{", "a", "}", "y">>)},
        v \in {VInt(7)} \cup {VText(t) : t \in Texts}
              \cup {VList(<<VText(t), VList(<<VText(<<"{", "b", "}">>)>>)>>) :
                        t \in {u \in Texts : Len(u) <= 3}}}

\* The same calls with fail_ok = True, for every chain and for the values
\* that are not long strings.
FailOkInputs ==
    {[call EXCEPT !.family = "fail_ok", !.fail_ok = TRUE] :
        call \in {c \in ChainInputs \cup TextInputs :
                     c.value.k = "str" => Len(c.value.items) <= 4}}

\* The calls of expand on values of every other variant, alone and inside a
\* list, with and without fail_ok: None, bools, a float, a function, an
\* exception, an object of an unknown type, a Config and a dict that hold a
\* macro, and Task handles whose promise is a string with a macro, a list,
\* or None.
VariantInputs ==
    LET macro == VText(<<"{", "a", "}">>)
        Scalars == {VNone, VBool(TRUE), VBool(FALSE), VInt(7), VFloat,
                    VText(<<"a", "b">>)}
        Others == {VFunction, VException, VObject, VConfig(<<macro>>),
                   VDict(<<macro>>), VHandle(macro),
                   VHandle(VList(<<macro, VFloat>>)), VTask(1)}
    IN {[family |-> "variant", fields |-> 2, kind |-> "none", back |-> 0,
         start |-> 0,
         scope |-> (<<"a">> :> VText(<<"x">>) @@ <<"b">> :> VText(<<"}">>)),
         value |-> v, fail_ok |-> f] :
           v \in Scalars \cup Others
                 \cup {VList(<<macro, w>>) : w \in Scalars \cup Others},
           f \in BOOLEAN}

\* expand(config, value, fail_ok) is called with app.expand_depth = 0.
CallExpand ==
    /\ expand_in.family # "none"
    /\ expand_out = NotExpanded
    /\ expand_out' = expand(expand_in.scope, expand_in.value, 0,
                            expand_in.fail_ok)
    /\ UNCHANGED <<app_vars, dir_vars, stale_in, stale_out, expand_in,
                   expand_again>>

\* expand is called on the value the first call returned, with the counter
\* as the first call left it.
CallExpandAgain ==
    /\ expand_out.err = ""
    /\ expand_again = NotExpanded
    /\ expand_again' = expand(expand_in.scope, expand_out.val,
                              expand_out.left, expand_in.fail_ok)
    /\ UNCHANGED <<app_vars, dir_vars, stale_in, stale_out, expand_in,
                   expand_out>>

\* ------------------------------------------------------------------ load_module

\* The directories a module may be loaded from.
ModuleDirs == {root_path, BuildPathUnder, BuildPathOutside}

\* popdir: the top of the stack is dropped and the process changes to the
\* new top.
popdir(stack) ==
    [dirstack |-> SubSeq(stack, 1, Len(stack) - 1),
     cwd |-> stack[Len(stack) - 1]]

\* load_module up to the execution of the module: pushdir resolves the
\* directory strictly (a missing directory raises before anything changed),
\* appends it to dirstack and changes to it (chdir may raise); then the file
\* is opened, read and compiled, each of which may raise; then the module's
\* code starts to run.  The module may call load_module itself.
LoadModule ==
    /\ Len(dirstack) <= MaxNest
    /\ \E file_path \in ModuleDirs,
          step \in {"FileNotFoundError", "chdir raised", "open raised", "executing"} :
        /\ load_result' = step
        /\ dirstack' = IF step = "FileNotFoundError" THEN dirstack
                       ELSE Append(dirstack, file_path)
        /\ cwd' = IF step \in {"open raised", "executing"} THEN file_path ELSE cwd
        /\ loading' = IF step = "executing"
                      THEN Append(loading, [dirstack |-> dirstack, cwd |-> cwd])
                      ELSE loading
    /\ UNCHANGED <<app_vars, stale_in, stale_out, expand_in, expand_out,
                   expand_again>>

\* The code of the module being loaded returns or raises: the finally
\* clause of load_module calls popdir.
ModuleDone ==
    /\ loading # <<>>
    /\ \E raised \in BOOLEAN :
           load_result' = IF raised THEN "exec raised" ELSE "returned"
    /\ dirstack' = popdir(dirstack).dirstack
    /\ cwd' = popdir(dirstack).cwd
    /\ loading' = SubSeq(loading, 1, Len(loading) - 1)
    /\ UNCHANGED <<app_vars, stale_in, stale_out, expand_in, expand_out,
                   expand_again>>

\* ------------------------------------------------------------------ Next

Walk == \E t \in Tasks : WalkTask(t)
Await == \E t \in Tasks : AwaitReturn(t)
Initialise == \E t \in Tasks : TaskInit(t)
Rerun == \E t \in Tasks : NeedsRerun(t)
Acquire == \E t \in Tasks : AcquireJobs(t)
Notified == \E t \in Tasks : JobsNotified(t)
Command == \E t \in Tasks : RunCommand(t)
Exit == \E t \in Tasks : SubprocessExit(t)
Finish == \E t \in Tasks : CommandsDone(t)

Next ==
    \/ LoadTask
    \/ StartBuild
    \/ DriverPop
    \/ DriverResume
    \/ DriverRaise
    \/ Walk
    \/ Await
    \/ Initialise
    \/ Rerun
    \/ Acquire
    \/ Notified
    \/ Command
    \/ Exit
    \/ Finish

\* The steps the event loop takes by itself: it runs a coroutine that is
\* ready whenever there is one, and a subprocess that was spawned ends.  An
\* exception that leaves run_until_complete is not among them.
Scheduled ==
    \/ LoadTask
    \/ StartBuild
    \/ DriverPop
    \/ DriverResume
    \/ Walk
    \/ Await
    \/ Initialise
    \/ Rerun
    \/ Acquire
    \/ Notified
    \/ Command
    \/ Exit
    \/ Finish

\* ------------------------------------------------------------------ properties: ordering and cancellation

RECURSIVE References(_)
\* The tasks a value refers to, directly or inside lists, dicts and Configs.
References(variant) ==
    IF variant.k = "task" THEN {variant.id}
    ELSE UNION {References(variant.items[i]) : i \in DOMAIN variant.items}

\* The producers of t: the tasks its config refers to.
Producers(t) == IF pc[t] = "undeclared" THEN {} ELSE References(config[t])

\* The errors task_init raises.
InitErrorKinds == {"ExpansionError", "PathMissing", "PathEscape", "DuplicateOutput"}

\* The errors raised after task_init has returned.
LateErrorKinds == {"InvalidDepFormat", "JobOverflow", "InvalidCommand",
                   "CommandFailed", "CallbackError", "FileNotFoundError"}

\* task_init of t has returned.
CompletedInit(t) ==
    \/ pc[t] \in {"rerun", "acquire", "wait_jobs", "run", "subproc"}
    \/ outcome[t] \in {"pass", "skip"} \cup LateErrorKinds

\* t has got as far as task_init.
StartedInit(t) == CompletedInit(t) \/ outcome[t] \in InitErrorKinds

\* t ended with an error of its own, not with a producer's cancellation.
OwnError(t) == outcome[t] \in ErrorKinds \ CancelledError

\* t ended because a producer's future gave Cancelled.
WasCancelled(t) == outcome[t] \in CancelledError

\* C3 (dependency order): a task whose config refers to a producer, directly
\* or nested in lists, dicts or Configs, has not started task_init, the
\* staleness check or its commands unless the future of every such producer
\* has completed; under every job budget and every order of queueing.
DependencyOrder ==
    \A t \in Tasks : StartedInit(t) => \A d \in Producers(t) : Done(d)

\* C3 witness: with shuffling on and one job, a task that refers to two
\* producers, one of them nested in lists, has been through task_init.
DependencyOrderWitness ==
    /\ shuffle
    /\ jobs = 1
    /\ \E t \in Tasks : CompletedInit(t) /\ Cardinality(Producers(t)) = 2

\* C4 (cancellation propagation): a task cancelled by a failed producer runs
\* no command and its future gives Cancelled, and when one task failed on
\* its own and its consumers were cancelled, tasks_fail counts only the
\* failed one: tasks_fail = 1.
CancellationPropagation ==
    /\ \A b \in Tasks :
         WasCancelled(b) => cmd_index[b] = 0 /\ future[b] = "Cancelled"
    /\ (/\ Cardinality({a \in Tasks : OwnError(a)}) = 1
        /\ \E b \in Tasks : WasCancelled(b))
       => tasks_fail = 1

\* C5 (cancellation accounting): every cancelled task has incremented
\* tasks_cancel once and neither tasks_fail nor tasks_pass: tasks_cancel is
\* the number of cancelled tasks, tasks_fail the number of tasks that failed
\* on their own, tasks_pass the number that ran their commands (one failed
\* producer with n cancelled consumers ends with 1, n and 0).
CancellationAccounting ==
    /\ tasks_cancel = Cardinality({t \in Tasks : WasCancelled(t)})
    /\ tasks_fail = Cardinality({t \in Tasks : OwnError(t)})
    /\ tasks_pass = Cardinality({t \in Tasks : outcome[t] = "pass"})

\* ------------------------------------------------------------------ properties: consistent resolution

\* The producers whose handles the value-walk of t has passed.
Passed(t) ==
    {d \in Tasks : \E i \in 1..walk[t] : await_variant_tasks(config[t])[i] = d}

\* What a consumer of d reads once d has ended: the result of its run_async.
Read(d) == <<future[d], outcome[d], result[d], abs_build_files[d]>>

\* A promise is replaced by a value only when the future gave files, and the
\* promise of a task whose future gave Cancelled stays the future, so that
\* every walk awaits it; a walk is past a handle only if its producer gave
\* files, and a task with a cancelled producer has not reached task_init and
\* can only end cancelled.
ResolutionInv ==
    \A d \in Tasks :
        /\ promise[d] = "Value" => future[d] = "files"
        /\ future[d] = "Cancelled" => promise[d] = "Future"
        /\ \A t \in Tasks :
            /\ d \in Passed(t) => future[d] = "files" /\ promise[d] = "Value"
            /\ d \in Producers(t) /\ StartedInit(t) => d \in Passed(t)
            /\ d \in Producers(t) /\ future[d] = "Cancelled" =>
                  /\ ~StartedInit(t)
                  /\ outcome[t] \in {"none", "AwaitError"} \cup CancelledError

\* What a producer resolved to never changes, a replaced promise stays
\* replaced, and a walk that was waiting for a producer goes on when it gave
\* files and ends cancelled when it gave Cancelled.
ResolutionStep ==
    \A d \in Tasks :
        /\ Done(d) => Read(d)' = Read(d)
        /\ promise[d] = "Value" => promise'[d] = "Value"
        /\ \A t \in Tasks :
              pc[t] \in {"walk", "await"} /\ ~WalkDone(t) /\ Leaf(t) = d
              /\ <<pc[t], walk[t]>> # <<pc[t], walk[t]>>' /\ pc'[t] # "await" =>
                  IF future[d] = "Cancelled"
                  THEN /\ pc'[t] = "done" /\ outcome'[t] \in CancelledError
                       /\ future'[t] = "Cancelled"
                  ELSE /\ future[d] = "files" /\ promise'[d] = "Value"
                       /\ walk'[t] = walk[t] + 1 /\ pc'[t] = "walk"

\* C30 (consistent resolution): all consumers of a producer observe the same
\* resolution, in whatever order they and the driver reach it: if it gave
\* files each reads that same result, whether it awaited the future itself
\* or found the promise already replaced; if it gave Cancelled every
\* consumer, first or later, is cancelled and none reaches task_init.
ConsistentResolution == []ResolutionInv /\ [][ResolutionStep]_vars

\* A build with shuffling has ended in which the two consumers of a failed
\* producer were both cancelled, and its promise is still the future.
ConsistentResolutionWitness ==
    /\ driver = "done" /\ shuffle
    /\ \E d, t, u \in Tasks :
        /\ t # u /\ d \in Producers(t) \cap Producers(u)
        /\ OwnError(d) /\ promise[d] = "Future"
        /\ WasCancelled(t) /\ WasCancelled(u)

\* ------------------------------------------------------------------ properties: deep await

RECURSIVE HoldsFuture(_)
\* An unresolved future is left somewhere in `variant`: an awaitable, or the
\* handle of a task whose promise is not its resolved value.
HoldsFuture(variant) ==
    \/ variant.k = "awaitable"
    \/ variant.k = "task" /\ promise[variant.id] # "Value"
    \/ \E i \in DOMAIN variant.items : HoldsFuture(variant.items[i])

\* _await_variant(task.config) has returned for t.
Walked(t) == WalkDone(t) /\ (pc[t] = "walk" \/ StartedInit(t))

\* C21 (deep await): when the value-walk of a task has returned, no
\* unresolved future is left anywhere in the task's config, nested lists,
\* dicts and configs and the values that futures resolved to included, and
\* the promise of every task the config refers to is its resolved value.
DeepAwait == \A t \in Tasks : Walked(t) => ~HoldsFuture(walked_config(t))

\* ------------------------------------------------------------------ properties: dry run

\* dry_run is set for task t: config.dry_run is true, by a field of the
\* task's own config or, without one, by the command line.
DryRunSet(t) == config_dry_run[t]

\* C22 (dry run): a task for which dry_run is set, globally or as a field of
\* its own config, gets no output directory from task_init and spawns no
\* subprocess; every command entry yields action.abs_build_files; and the
\* task is counted as skipped when needs_rerun returned "" and as passed
\* when it returned a reason.
DryRun ==
    \A t \in Tasks :
        DryRunSet(t) /\ StartedInit(t) =>
            /\ t \notin made_dirs
            /\ pc[t] # "subproc"
            /\ returncode[t] = -1
            /\ result[t] # NoResult => result[t].value = "abs_build_files"
            /\ reason[t] = "" => outcome[t] = "skip"
            /\ reason[t] \notin {"None", ""} /\ pc[t] = "done"
                => outcome[t] = "pass"

\* ------------------------------------------------------------------ properties: error isolation

\* This step ends run_async of t with an error of t's own.
Fails(t) == outcome[t] = "none" /\ outcome'[t] \in ErrorKinds \ CancelledError

\* A step in which a task fails counts it once, completes its future with
\* Cancelled, leaves the driver where it is and every other task as it was.
IsolationStep ==
    \A t \in Tasks :
        Fails(t) =>
            /\ tasks_fail' = tasks_fail + 1
            /\ future'[t] = "Cancelled"
            /\ driver' = driver
            /\ build_result' = build_result
            /\ \A u \in Tasks \ {t} :
                 /\ pc'[u] = pc[u]
                 /\ future'[u] = future[u]
                 /\ outcome'[u] = outcome[u]
                 /\ cmd_index'[u] = cmd_index[u]

\* When the driver has finished, every declared task has ended, and only a
\* task with a producer whose future gave Cancelled ended cancelled: the
\* others passed, were skipped or failed on their own.
IsolationEnd ==
    driver = "done" =>
        \A t \in Tasks :
            pc[t] # "undeclared" =>
                /\ pc[t] = "done"
                /\ outcome[t] # "none"
                /\ WasCancelled(t) =>
                     \E d \in Producers(t) : future[d] = "Cancelled"

\* C6 (per-task error isolation): an error raised in a task's value-walk,
\* task_init, staleness check or command is caught in run_async: tasks_fail
\* goes up by exactly one, the task's future completes with Cancelled,
\* nothing is raised into the driver, no other task is interrupted, and the
\* tasks that do not depend on the failed one still end in pass or skip.
ErrorIsolation == []IsolationEnd /\ [][IsolationStep]_vars

\* C6 witness: the build has finished with one task that failed in its
\* value-walk, one that failed later and one that passed.
ErrorIsolationWitness ==
    /\ driver = "done"
    /\ \E t \in Tasks : outcome[t] = "AwaitError"
    /\ \E t \in Tasks : outcome[t] \in InitErrorKinds \cup LateErrorKinds
    /\ \E t \in Tasks : outcome[t] = "pass"

\* ------------------------------------------------------------------ properties: outputs

\* C7 (output uniqueness): every path in all_build_files was registered by
\* exactly one task; a task that finds one of its output paths registered
\* raises DuplicateOutput instead of registering it, so two tasks that both
\* completed task_init have no output path in common.
OutputUniqueness ==
    /\ all_build_files = UNION {registered[t] : t \in Tasks}
    /\ \A t, u \in Tasks : t # u => registered[t] \cap registered[u] = {}
    /\ \A t \in Tasks :
         /\ CompletedInit(t) => registered[t] = Range(abs_build_files[t])
         /\ registered[t] \subseteq Range(abs_build_files[t])
    /\ \A t, u \in Tasks :
         (t # u /\ CompletedInit(t) /\ CompletedInit(u))
         => Range(abs_build_files[t]) \cap Range(abs_build_files[u]) = {}

\* C7 witness: a task raised DuplicateOutput on a path that another task,
\* which completed task_init, had registered.
OutputUniquenessWitness ==
    \E t, u \in Tasks :
        /\ t # u
        /\ outcome[t] = "DuplicateOutput"
        /\ CompletedInit(u)
        /\ Range(abs_build_files[t]) \cap registered[u] # {}

\* This step is task_init of t.
InitStep(t) == pc[t] = "walk" /\ pc'[t] # "walk" /\ task_counter' # task_counter

\* Of two tasks with a common output the one that reaches task_init second
\* fails there: a task_init that gets as far as the registry and finds an
\* output of the task registered by another task raises DuplicateOutput and
\* makes no directory.
DuplicateStep ==
    \A t \in Tasks :
        (/\ InitStep(t)
         /\ path_under_root(abs_build_path'[t])
         /\ \E u \in Tasks \ {t} :
              Range(abs_build_files'[t]) \cap registered[u] # {})
        => /\ outcome'[t] = "DuplicateOutput"
           /\ made_dirs' = made_dirs
           /\ \A u \in Tasks \ {t} : outcome'[u] = outcome[u]

\* A task that raised DuplicateOutput is counted as failed, ran no command
\* and made no directory, and the build's exit code is not zero.
DuplicateLoser ==
    \A t \in Tasks :
        outcome[t] = "DuplicateOutput" =>
            /\ cmd_index[t] = 0
            /\ t \notin made_dirs
            /\ future[t] = "Cancelled"
            /\ tasks_fail >= 1
            /\ build_result # <<0>>

\* C8 (duplicate output scenario): when two tasks declare the same output
\* path, the one that reaches task_init second fails, the build's exit code
\* is nonzero, and the losing task runs no command and creates no directory.
DuplicateOutputScenario == []DuplicateLoser /\ [][DuplicateStep]_vars

\* C8 witness: the build has ended; one task registered an output, made its
\* directory and passed, the other raised DuplicateOutput on that output.
DuplicateOutputWitness ==
    /\ build_result = <<-1>>
    /\ driver = "done"
    /\ \E t, u \in Tasks :
        /\ outcome[t] = "DuplicateOutput"
        /\ outcome[u] = "pass"
        /\ u \in made_dirs
        /\ Range(abs_build_files[t]) \cap registered[u] # {}

\* C9 (containment): a task that completed task_init has an abs_build_path
\* under root_path (root_path itself or a path below that directory); a task
\* whose abs_build_path is not under root_path raised PathEscape before
\* registering an output or making a directory.
Containment ==
    \A t \in Tasks :
        LET build_path == abs_build_path[t]
            under == \/ build_path = root_path
                     \/ startswith(build_path, root_path \o <<"/">>)
        IN /\ CompletedInit(t) => under
           /\ (build_path # <<>> /\ ~under)
              => /\ outcome[t] = "PathEscape"
                 /\ registered[t] = {}
                 /\ t \notin made_dirs
                 /\ cmd_index[t] = 0

\* ------------------------------------------------------------------ properties: atomic registration

\* The errors of task_init the registration is claimed to survive.
RegistrationErrors == {"PathMissing", "PathEscape", "DuplicateOutput"}

\* The step in which task_init fails leaves all_build_files as it was.
FailedInitStep ==
    \A t \in Tasks :
        pc[t] = "walk" /\ outcome'[t] \in RegistrationErrors =>
            all_build_files' = all_build_files

\* A task whose task_init failed has no path registered, and a task that
\* raised DuplicateOutput found its path registered by a task whose
\* task_init returned.
FailedInitKeepsNothing ==
    \A t \in Tasks :
        /\ outcome[t] \in RegistrationErrors => registered[t] = {}
        /\ outcome[t] = "DuplicateOutput" =>
              \E u \in Tasks \ {t} :
                  /\ CompletedInit(u)
                  /\ Range(abs_build_files[t]) \cap registered[u] # {}

\* C31 (atomic registration on failure): when task_init fails with
\* PathMissing, PathEscape or DuplicateOutput, for a task with any number of
\* build files, all_build_files is left as it was before the call: a failed
\* task keeps no output path registered and makes no later task fail with
\* DuplicateOutput.
AtomicRegistration == []FailedInitKeepsNothing /\ [][FailedInitStep]_vars

\* ------------------------------------------------------------------ properties: exit code

\* C10 (exit code): the build returns 0 exactly when the driver finished with
\* tasks_fail = 0, and -1 when a task failed or the driver itself raised.
ExitCode ==
    build_result # <<>> =>
        /\ build_result \in {<<0>>, <<-1>>}
        /\ build_result = <<0>> <=> (driver = "done" /\ tasks_fail = 0)
        /\ build_result = <<-1>> <=> (driver = "raised" \/ tasks_fail # 0)

\* C10 witness: the driver finished, some task passed and another failed,
\* and the build returned -1.
ExitCodeWitness ==
    /\ driver = "done"
    /\ build_result = <<-1>>
    /\ tasks_pass > 0
    /\ tasks_fail > 0

\* ------------------------------------------------------------------ properties: shuffle

RECURSIVE Expected(_)
\* How task t ends, from the description alone: cancelled when a producer
\* fails or is cancelled, otherwise as its own files and commands decide.
\* Producers are declared before their consumers, so the recursion ends.
Expected(t) ==
    IF \E d \in Producers(t) : Expected(d) \in {"CommandFailed", "CancelledError"}
    THEN "CancelledError"
    ELSE CASE description.fates[t] = "pass" -> "pass"
           [] description.fates[t] = "skip" -> "skip"
           [] OTHER -> "CommandFailed"

\* The declared tasks.
Declared == {t \in Tasks : pc[t] # "undeclared"}

\* The declared tasks whose error the clause `clause` of run_async catches.
ExpectedCaught(clause) ==
    {t \in Declared : /\ Expected(t) \in ErrorKinds
                      /\ except_clause(Expected(t)) = clause}

\* C11 (shuffle does not affect correctness): for tasks whose dependencies
\* are declared and whose outputs are distinct, when the build has finished
\* the outcome of every task, the counters and the exit code are what the
\* description alone determines, whatever order queue_pending_tasks chose
\* at each step and whether or not shuffle is on.
ShuffleInvariance ==
    driver = "done" =>
        /\ \A t \in Declared : outcome[t] = Expected(t)
        /\ tasks_pass = Cardinality({t \in Declared : Expected(t) = "pass"})
        /\ tasks_skip = Cardinality({t \in Declared : Expected(t) = "skip"})
        /\ tasks_fail = Cardinality(ExpectedCaught("BaseException"))
        /\ tasks_cancel = Cardinality(ExpectedCaught("CancelledError"))
        /\ build_result =
             <<IF \E t \in Declared : Expected(t) \in ErrorKinds THEN -1 ELSE 0>>

\* C11 witness: a shuffled build of three tasks has finished with a task
\* that passed, one that failed and one that was cancelled.
ShuffleInvarianceWitness ==
    /\ shuffle
    /\ driver = "done"
    /\ \E t, u, v \in Tasks :
         outcome[t] = "pass" /\ outcome[u] = "CommandFailed" /\ WasCancelled(v)

\* ------------------------------------------------------------------ properties: job pool

\* ------------------------------------------------------------------ properties: job overflow

\* Task t has been through task_init and asks for more jobs than the budget.
Oversized(t) == job_count[t] > jobs

\* The step in which an oversized task calls acquire_jobs ends the task with
\* JobOverflow: it is counted in tasks_fail once and in no other counter,
\* the pool does not shrink, and no command entry is started.
OverflowStep ==
    \A t \in Tasks :
        Oversized(t) /\ pc[t] = "acquire" /\ pc'[t] # "acquire" =>
            /\ pc'[t] = "done"
            /\ outcome'[t] = "JobOverflow"
            /\ future'[t] = "Cancelled"
            /\ tasks_fail' = tasks_fail + 1
            /\ UNCHANGED <<tasks_pass, tasks_skip, tasks_cancel, cmd_index>>
            /\ jobs_available' >= jobs_available

\* An oversized task never waits for jobs, is never between acquire and
\* release, starts no command entry and does not pass; and JobOverflow is
\* the outcome of oversized tasks only.
OverflowNever ==
    \A t \in Tasks :
        /\ Oversized(t) =>
              /\ pc[t] \notin {"wait_jobs", "run", "subproc"}
              /\ cmd_index[t] = 0
              /\ outcome[t] \in {"none", "JobOverflow", "CancelledError"}
        /\ outcome[t] = "JobOverflow" => Oversized(t) /\ tasks_fail >= 1

\* C20: a task whose job_count exceeds Config.jobs fails with JobOverflow in
\* the step in which it calls acquire_jobs: it never waits, takes no jobs,
\* runs none of its commands and adds exactly one to tasks_fail.
JobOverflow == []OverflowNever /\ [][OverflowStep]_vars

\* A build has ended in which one task failed with JobOverflow, and is the
\* only failure, while another task ran its commands and passed.
JobOverflowWitness ==
    /\ driver = "done"
    /\ tasks_fail = 1
    /\ \E t, u \in Tasks :
        /\ outcome[t] = "JobOverflow" /\ cmd_index[t] = 0
        /\ outcome[u] = "pass" /\ cmd_index[u] >= 1

\* ------------------------------------------------------------------ properties: job pool liveness

\* No waiter sleeps while the pool holds the jobs it asks for: it has been
\* notified and will recheck.
NoLostWakeup ==
    \A t \in Tasks :
        pc[t] = "wait_jobs" /\ jobs_available >= job_count[t] => t \in notified

\* A waiter proceeds only after it rechecked that the pool holds its count,
\* and takes exactly that count.
WakeStep ==
    \A t \in Tasks :
        pc[t] = "wait_jobs" /\ pc'[t] # "wait_jobs" =>
            /\ t \in notified
            /\ jobs_available >= job_count[t]
            /\ jobs_available' = jobs_available - job_count[t]
            /\ pc'[t] = "run"

\* C24 (job pool liveness): while the event loop runs and commands end,
\* every task waiting in acquire_jobs eventually acquires its jobs (unless
\* an exception leaves the loop); release_jobs wakes every waiter, a waiter
\* rechecks the pool before it proceeds, and none sleeps while the pool
\* holds its count.
JobPoolLiveness ==
    /\ []NoLostWakeup
    /\ [][WakeStep]_vars
    /\ \A t \in Tasks :
          pc[t] = "wait_jobs" ~> (pc[t] = "run" \/ driver = "raised")

\* A task that asks for the whole pool waits beside another waiter; a
\* release has notified both and the pool now holds its count.
JobPoolLivenessWitness ==
    \E t, u \in Tasks :
        /\ t # u
        /\ pc[t] = "wait_jobs" /\ pc[u] = "wait_jobs"
        /\ job_count[t] = MaxJobs /\ job_count[u] < MaxJobs
        /\ {t, u} \subseteq notified
        /\ jobs_available >= job_count[t]

\* ------------------------------------------------------------------ properties: outcome accounting

\* The tasks counted so far.
Counted == tasks_pass + tasks_fail + tasks_skip + tasks_cancel

\* The tasks whose run_async has ended.
Ended == {t \in Tasks : pc[t] = "done"}

\* The counters sum to the number of tasks whose run_async has ended, which
\* is at most tasks_total and equals it when async_run_tasks has returned.
AccountingInv ==
    /\ Counted = Cardinality(Ended)
    /\ Counted <= tasks_total
    /\ driver = "done" => Counted = tasks_total

\* The step that ends a task's run_async adds one to exactly one counter,
\* and no other step changes a counter.
AccountingStep ==
    /\ \A t \in Tasks :
          pc[t] # "done" /\ pc'[t] = "done" =>
              /\ Counted' = Counted + 1
              /\ tasks_pass' \in {tasks_pass, tasks_pass + 1}
              /\ tasks_fail' \in {tasks_fail, tasks_fail + 1}
              /\ tasks_skip' \in {tasks_skip, tasks_skip + 1}
              /\ tasks_cancel' \in {tasks_cancel, tasks_cancel + 1}
    /\ <<tasks_pass, tasks_fail, tasks_skip, tasks_cancel>>
           # <<tasks_pass, tasks_fail, tasks_skip, tasks_cancel>>' =>
          \E t \in Tasks : pc[t] # "done" /\ pc'[t] = "done"

\* C28 (outcome accounting): the run_async of each task adds one to exactly
\* one of tasks_pass, tasks_fail, tasks_skip, tasks_cancel, once; the sum of
\* the four is at most tasks_total in every state and equals tasks_total
\* when the driver has returned.
OutcomeAccounting == []AccountingInv /\ [][AccountingStep]_vars

\* The driver has returned from a build in which one task passed, one was
\* skipped and one failed.
OutcomeAccountingWitness ==
    /\ driver = "done"
    /\ tasks_total = NumTasks
    /\ tasks_pass = 1 /\ tasks_skip = 1 /\ tasks_fail = 1

\* ------------------------------------------------------------------ properties: run once

\* No task is twice in queued_tasks or in both lists; the pending tasks are
\* the declared tasks without promise, and they have not started; a task
\* that is queued, or has been, has a promise.
RunOnceInv ==
    /\ \A i, j \in 1..Len(queued_tasks) :
          queued_tasks[i] = queued_tasks[j] => i = j
    /\ \A i, j \in 1..Len(pending_tasks) :
          pending_tasks[i] = pending_tasks[j] => i = j
    /\ \A t \in Tasks :
        /\ ~(InSeq(t, pending_tasks) /\ InSeq(t, queued_tasks))
        /\ InSeq(t, pending_tasks) <=> pc[t] = "pending"
        /\ pc[t] = "pending" => promise[t] = "None" /\ future[t] = "none"
        /\ InSeq(t, queued_tasks) => promise[t] # "None"
        /\ promise[t] = "None" <=> pc[t] \in {"undeclared", "pending"}

\* A task gets its future once, in a queue_pending_tasks step and from
\* promise None; its run_async starts once, in that step, and never again
\* after it ended; a queue_pending_tasks step, of the driver or of a
\* value-walk, takes every pending task and leaves pending_tasks empty.
RunOnceStep ==
    \A t \in Tasks :
        /\ promise'[t] = "Future" /\ promise[t] # "Future" =>
              promise[t] = "None" /\ pc[t] = "pending"
        /\ promise[t] # "None" => promise'[t] # "None"
        /\ future'[t] = "running" /\ future[t] # "running" =>
              future[t] = "none" /\ pc[t] = "pending"
        /\ pc[t] = "pending" /\ pc'[t] # "pending" =>
              /\ pc'[t] = "walk" /\ walk'[t] = 0
              /\ promise'[t] = "Future" /\ future'[t] = "running"
              /\ InSeq(t, queued_tasks') /\ ~InSeq(t, queued_tasks)
              /\ pending_tasks' = <<>>
              /\ \A u \in Tasks :
                    InSeq(u, pending_tasks) =>
                        promise'[u] = "Future" /\ InSeq(u, queued_tasks')
        /\ pc[t] \notin {"undeclared", "pending"} =>
              pc'[t] \notin {"undeclared", "pending"}
        /\ pc[t] \notin {"pending", "walk", "await"} => pc'[t] # "walk"
        /\ pc[t] = "done" => pc'[t] = "done"

\* C29 (run once): every declared task is given a future once and its
\* run_async runs once, although queue_pending_tasks is called by the driver
\* and, re-entrantly, by the value-walk of a task that references a task
\* not yet queued; no task is twice in queued_tasks, none is in
\* pending_tasks and queued_tasks, and after a queue_pending_tasks step
\* pending_tasks is empty and no task it held has promise None.
RunOnce == []RunOnceInv /\ [][RunOnceStep]_vars

\* The value-walk of a task has queued the task a callback declared: the
\* driver still awaits the first task, which has ended, and has not run
\* since the callback of that task declared the third.
RunOnceWitness ==
    /\ driver = "await" /\ driver_task = 1 /\ pc[1] = "done"
    /\ \E t, d \in Tasks :
        /\ declared_by[d] = "callback"
        /\ pc[t] = "await" /\ Leaf(t) = d
        /\ promise[d] = "Future" /\ InSeq(d, queued_tasks)
        /\ pending_tasks = <<>>

\* ------------------------------------------------------------------ properties: dependency cycles

\* The task whose future the value-walk of t awaits, 0 if it awaits none.
WaitsFor(t) ==
    IF pc[t] = "await" /\ Leaf(t) # RawAwaitable THEN Leaf(t) ELSE 0

\* t waits for a task that waits for t, directly or through a third task.
Deadlocked(t) ==
    LET u == WaitsFor(t) IN
    /\ u \notin {0, t}
    /\ \/ WaitsFor(u) = t
       \/ WaitsFor(u) # 0 /\ WaitsFor(WaitsFor(u)) = t

\* C26 (dependency cycles): tasks whose configs reference each other in a
\* cycle wait on each other's futures and never complete, and the build
\* surfaces the deadlock and returns: the driver does not wait forever.
CycleSurfaced ==
    /\ [][\A t \in Tasks : Deadlocked(t) => Deadlocked(t)' /\ ~Done(t)']_vars
    /\ (\E t \in Tasks : Deadlocked(t)) ~> driver \in {"done", "raised"}

\* ------------------------------------------------------------------ properties: directories

\* C19: every call of load_module leaves the working directory and dirstack
\* as they were when it was entered, however it ends: by returning, by an
\* error of the module's code, or by a failure to enter the directory or to
\* open, read or compile the file.
ChdirDiscipline ==
    [][load_result' # "executing" =>
          LET entry == IF Len(loading') < Len(loading)
                       THEN loading[Len(loading)]
                       ELSE [dirstack |-> dirstack, cwd |-> cwd]
          IN dirstack' = entry.dirstack /\ cwd' = entry.cwd]_vars

\* ------------------------------------------------------------------ properties: expansion

\* expand was called on a field of a chain that ends in "x" (no cycle) or
\* on a field that is part of the chain's cycle, and has returned or raised.
ExpandedChain(cyclic) ==
    /\ expand_out # NotExpanded
    /\ expand_in.family = "chain"
    /\ IF cyclic THEN expand_in.back # 0 /\ expand_in.start >= expand_in.back
       ELSE expand_in.back = 0

\* C16 as stated: expanding a field of a reference cycle fails with
\* ExpansionCycle (RecursionError), raised at a depth of at least 6 and at
\* most 20.
ExpansionCycleGuard ==
    ExpandedChain(TRUE) =>
        /\ expand_out.err = "RecursionError"
        /\ expand_out.at >= 6
        /\ expand_out.at <= 20

\* C16 amended: expanding a field of a reference cycle fails with
\* ExpansionCycle (RecursionError), raised by the first macro evaluation
\* that finds the depth counter above MAX_EXPAND_DEPTH, which is at 21 or 22;
\* the counter never gets higher.
ExpansionCycleGuardAmended ==
    ExpandedChain(TRUE) =>
        /\ expand_out.err = "RecursionError"
        /\ expand_out.at \in {MAX_EXPAND_DEPTH + 1, MAX_EXPAND_DEPTH + 2}
        /\ expand_out.peak = expand_out.at

\* The cycle a = "{c}", c = "{b}y", b = "{a}y" was expanded from a and the
\* error was raised with the counter at 22.
ExpansionCycleGuardWitness ==
    /\ ExpandedChain(TRUE)
    /\ expand_in.kind = "mixed" /\ expand_in.fields = 3 /\ expand_in.back = 1
    /\ expand_in.start = 1
    /\ expand_out.err = "RecursionError" /\ expand_out.at = 22

\* The value of the depth counter when the macro of link i of the chain
\* expand_in is evaluated: one for every macro evaluation and one more for
\* every template expansion on the way from the start.
CheckDepth(i) ==
    (i - expand_in.start)
    + Cardinality({j \in expand_in.start..i : ~Pure(expand_in.kind, j)})

\* The links expansion follows from the start of the chain expand_in.
Links == expand_in.start..(expand_in.fields - 1)

\* What the start of the chain expand_in resolves to: "x" and the "y" of
\* every template on the way.
Resolved ==
    VText(<<"x">> \o [j \in 1..Cardinality({i \in Links : ~Pure(expand_in.kind, i)})
                         |-> "y"])

\* C17 as stated: a value whose references contain no cycle expands to its
\* resolved value without ExpansionCycle, whatever the length of the chain,
\* in at most MAX_EXPAND_DEPTH levels.
ExpansionTermination ==
    ExpandedChain(FALSE) =>
        /\ expand_out.err = ""
        /\ expand_out.val = Resolved
        /\ expand_out.peak <= MAX_EXPAND_DEPTH

\* C17 amended: a value whose references contain no cycle expands to its
\* resolved value, with the depth counter at most MAX_EXPAND_DEPTH + 1,
\* provided every macro on the way is evaluated with the counter at most
\* MAX_EXPAND_DEPTH (each macro evaluation and each template expansion
\* adds one); a chain that nests deeper fails with ExpansionCycle although
\* it has no cycle.
ExpansionTerminationAmended ==
    ExpandedChain(FALSE) =>
        IF \A i \in Links : CheckDepth(i) <= MAX_EXPAND_DEPTH
        THEN /\ expand_out.err = ""
             /\ expand_out.val = Resolved
             /\ expand_out.peak <= MAX_EXPAND_DEPTH + 1
        ELSE expand_out.err = "RecursionError"

\* A chain of 22 pure macros was expanded from its first field: it resolved
\* and the counter went up to MAX_EXPAND_DEPTH + 1.
ExpansionTerminationWitness ==
    /\ ExpandedChain(FALSE)
    /\ expand_in.kind = "macro" /\ expand_in.start = 1
    /\ expand_in.fields = MAX_EXPAND_DEPTH + 2
    /\ expand_out.err = "" /\ expand_out.peak = MAX_EXPAND_DEPTH + 1

\* C18: expand(C, expand(C, v)) = expand(C, v) for every config C and value
\* v without reference cycles: the second expansion returns, and returns
\* the value it was given (fail_ok is left at its default, False).
ExpansionFixpoint ==
    expand_again # NotExpanded /\ ~expand_in.fail_ok =>
        /\ expand_again.err = ""
        /\ expand_again.val = expand_out.val

\* ------------------------------------------------------------------ properties: expansion dispatch

\* A scalar: None, a bool, an int, a float, or a string that holds no macro.
Scalar(variant) ==
    \/ variant.k \in {"none", "bool", "int", "float"}
    \/ variant.k = "str" /\ template_regex(variant.items) = <<>>

\* C23 (expansion dispatch of scalars): expand returns a scalar (None, a
\* bool, an int, a float, a string without macro) as it is and raises
\* nothing, and of the values that are not lists or Task handles only those
\* of an unknown variant fail with UnknownVariant (ValueError).
ScalarDispatch ==
    expand_out # NotExpanded =>
        /\ Scalar(expand_in.value) =>
              expand_out.err = "" /\ expand_out.val = expand_in.value
        /\ (expand_out.err = "ValueError" /\ expand_in.value.k \notin {"list", "task"})
           <=> expand_in.value.k = "object"

\* ------------------------------------------------------------------ properties: depth counter

\* C27 (depth counter balance): every call of expand leaves app.expand_depth
\* at the value it had on entry, which is 0 outside an expansion, whether
\* the call returns, raises (ExpansionCycle included) or drops an error
\* under fail_ok; and so does a call made after one that failed or dropped
\* an error.
DepthBalance ==
    /\ expand_out.left = 0
    /\ expand_again.left = 0

\* expand was called with fail_ok on a field of a reference cycle: the
\* RecursionError raised with the counter above the limit was dropped, the
\* call returned "y" and a second call returned as well.
DepthBalanceWitness ==
    /\ expand_in.family = "fail_ok" /\ expand_in.fail_ok
    /\ expand_in.kind = "template" /\ expand_in.back > 0
    /\ expand_out.err = "" /\ expand_out.val = VText(<<"y">>)
    /\ expand_out.peak > MAX_EXPAND_DEPTH
    /\ expand_again # NotExpanded /\ expand_again.err = ""

\* ------------------------------------------------------------------ properties: staleness

\* needs_rerun has returned (not raised) in the call stale_in.
Returned == stale_out # NotCalled /\ stale_out.raise = ""

\* The files whose times needs_rerun compares with the build files' in the
\* call stale_in: sources, command files and loaded modules, and with
\* `listed` also what an existing depfile lists.
Compared(listed) ==
    Range(stale_in.sources) \cup {CommandFile, ModuleFile}
    \cup IF listed /\ stale_in.depfile # "none" THEN {HeaderFile} ELSE {}

\* The calls C14 is about: force unset, source and build files given, every
\* build file present.
MtimesDecide ==
    /\ ~stale_in.force
    /\ stale_in.sources # <<>>
    /\ stale_in.builds # <<>>
    /\ \A f \in Range(stale_in.builds) : stale_in.mtime[f] # 0

\* C14: with force unset, source and build files given and every build file
\* present, needs_rerun returns a non-empty reason whenever a source file, a
\* command file or a loaded description file is as new as or newer than the
\* oldest build file, and returns "" only if each of them and each file
\* listed by an existing depfile is strictly older than every build file.
MonotoneRebuild ==
    stale_out # NotCalled /\ MtimesDecide =>
        /\ (\E f \in Compared(FALSE) :
                stale_in.mtime[f] >= MinMtime(Range(stale_in.builds), stale_in.mtime))
            => Returned /\ stale_out.reason # ""
        /\ Returned /\ stale_out.reason = ""
            => \A f \in Compared(TRUE), b \in Range(stale_in.builds) :
                   stale_in.mtime[f] < stale_in.mtime[b]

\* needs_rerun returned a reason for a source file exactly as old as the
\* older of two build files.
MonotoneRebuildWitness ==
    /\ Returned /\ MtimesDecide
    /\ stale_out.reason = "changed"
    /\ stale_in.builds = <<FileF, FileG>>
    /\ stale_in.mtime[SourceFile] = stale_in.mtime[FileG]
    /\ stale_in.mtime[FileG] < stale_in.mtime[FileF]

\* C15: needs_rerun returns a reason whenever force is set, there is no
\* source file, there is no build file, or a build file is missing, decided
\* in that order (the reason is the first rule's that applies) and before any
\* modification time is read: the call returns, it does not raise what
\* reading the time of a missing file raises.
RulePrecedence ==
    stale_out # NotCalled =>
        /\ stale_in.force => Returned /\ stale_out.reason = "forced"
        /\ ~stale_in.force /\ stale_in.sources = <<>>
            => Returned /\ stale_out.reason = "no inputs"
        /\ ~stale_in.force /\ stale_in.sources # <<>> /\ stale_in.builds = <<>>
            => Returned /\ stale_out.reason = "no outputs"
        /\ (/\ ~stale_in.force
            /\ stale_in.sources # <<>>
            /\ \E f \in Range(stale_in.builds) : stale_in.mtime[f] = 0)
            => Returned /\ stale_out.reason = "missing"

\* needs_rerun returned the reason of a missing build file for a task whose
\* other build file is newer than everything, with a depfile that lists a
\* missing file.
RulePrecedenceWitness ==
    /\ Returned /\ stale_out.reason = "missing"
    /\ stale_in.builds = <<FileF, FileG>>
    /\ stale_in.mtime[FileF] = MaxTime /\ stale_in.mtime[FileG] = 0
    /\ stale_in.mtime[SourceFile] < MaxTime
    /\ stale_in.depfile = "gcc" /\ stale_in.mtime[HeaderFile] = 0

\* ------------------------------------------------------------------ properties: skipping

\* needs_rerun returns "" for task t in this step.
ReturnsEmpty(t) == reason[t] = "None" /\ reason'[t] = ""

\* The step in which needs_rerun returns "" ends run_async: the future gets
\* the build files, tasks_skip goes up by one, and no other counter, the job
\* pool, the waiters' notifications and the command index change.
SkipStep ==
    \A t \in Tasks :
        ReturnsEmpty(t) =>
            /\ pc'[t] = "done"
            /\ future'[t] = "files"
            /\ outcome'[t] = "skip"
            /\ tasks_skip' = tasks_skip + 1
            /\ UNCHANGED <<tasks_pass, tasks_fail, tasks_cancel, tasks_total,
                           jobs_available, notified, cmd_index, pending_tasks>>

\* A task for which needs_rerun returned "" has ended, has started no
\* command entry (subprocess or callback), holds no jobs, and its future
\* holds the build files.
Skipped ==
    \A t \in Tasks :
        reason[t] = "" =>
            /\ pc[t] = "done"
            /\ cmd_index[t] = 0
            /\ outcome[t] = "skip"
            /\ future[t] = "files"

\* C13: whenever needs_rerun returns "" for a task, run_async does not enter
\* run_commands for it (no jobs acquired, no subprocess, no callback); the
\* task adds one to tasks_skip and to no other counter, and its future
\* resolves to the build files.
IdempotentSkip == []Skipped /\ [][SkipStep]_vars

\* A build has ended in which one task was skipped while another, which a
\* callback declared, ran its command.
IdempotentSkipWitness ==
    /\ driver = "done"
    /\ \E t, u \in Tasks :
        /\ reason[t] = "" /\ tasks_skip >= 1
        /\ reason[u] = "changed" /\ cmd_index[u] = 1
        /\ declared_by[u] = "callback"

\* ------------------------------------------------------------------ properties: termination

\* When async_run_tasks has returned nothing is pending or queued and the
\* future of every declared task has completed.
Drained ==
    driver = "done" =>
        /\ pending_tasks = <<>>
        /\ queued_tasks = <<>>
        /\ \A t \in Declared : Done(t)

\* C12: with an acyclic graph (a task references tasks declared before it)
\* and commands that end, async_run_tasks eventually returns unless an
\* exception leaves run_until_complete, and when it has returned
\* pending_tasks and queued_tasks are empty and the future of every declared
\* task has completed, the tasks that callbacks declared during the build
\* included.
DriverTermination == []Drained /\ <>(driver \in {"done", "raised"})

\* The driver has returned after a build in which a callback declared a
\* task while a task of the description was running; both have completed.
DriverTerminationWitness ==
    /\ driver = "done"
    /\ \E t, u \in Tasks :
        /\ declared_by[t] = "load" /\ declared_by[u] = "callback"
        /\ Done(t) /\ outcome[u] = "pass"

RECURSIVE SumJobCount(_)
\* The jobs the tasks of S ask for, together.
SumJobCount(S) ==
    IF S = {} THEN 0
    ELSE LET t == CHOOSE u \in S : TRUE
         IN job_count[t] + SumJobCount(S \ {t})

\* The tasks between a successful acquire_jobs and the release_jobs that
\* follows it.
HoldingJobs == {t \in Tasks : InCommands(t)}

\* The tasks inside run_commands, waiting for jobs or holding them.
InRunCommands == {t \in Tasks : pc[t] \in {"acquire", "wait_jobs", "run", "subproc"}}

\* C1 (job budget): at every moment the jobs asked for by the tasks that are
\* between a successful acquire and the matching release sum to at most
\* Config.jobs, also in builds where some task asks for more than Config.jobs.
JobBudget == SumJobCount(HoldingJobs) <= jobs

\* C2 (acquire/release balanced): once the build has set the pool,
\* jobs_available stays within 0..Config.jobs on every path, a failed
\* acquisition included, and equals Config.jobs whenever no task is inside
\* run_commands.
JobsBalanced ==
    driver # "load" =>
        /\ 0 <= jobs_available
        /\ jobs_available <= jobs
        /\ (InRunCommands = {} => jobs_available = jobs)

\* ------------------------------------------------------------------ properties: command sequencing

\* The errors with which an entry of action.command fails.
EntryErrors == {"CommandFailed", "InvalidCommand", "CallbackError"}

\* Entries run one at a time under the jobs taken at the head of
\* run_commands: while a task runs an entry every earlier entry has
\* returned and the task's jobs are out of the pool (in builds where no
\* task asks for more than the pool); a failed entry is the
\* last one started and fails the task; a task that passed has the value of
\* its last entry as result.
SequencingInv ==
    /\ driver # "load" /\ (\A t \in Tasks : ~Oversized(t)) =>
           jobs_available = jobs - SumJobCount({t \in Tasks : InCommands(t)})
    /\ \A t \in Tasks :
        /\ cmd_index[t] > 0 => InCommands(t) \/ pc[t] = "done"
        /\ pc[t] = "run" => result[t].entry = cmd_index[t]
        /\ pc[t] = "subproc" =>
              cmd_index[t] >= 1 /\ result[t].entry = cmd_index[t] - 1
        /\ outcome[t] = "pass" =>
              /\ result[t].entry = cmd_index[t]
              /\ returncode[t] \in {-1, 0}
              /\ cmd_index[t] = 0 <=> result[t] = NoResult
        /\ outcome[t] \in EntryErrors =>
              cmd_index[t] >= 1 /\ result[t].entry = cmd_index[t] - 1
        /\ returncode[t] \notin {-1, 0} =>
              pc[t] = "done" /\ outcome[t] = "CommandFailed"

\* Entries start in list order while the task holds its jobs; the jobs are
\* taken before the first entry and once, and a task leaves run_commands
\* only by ending; an entry that fails ends the task in the step in which it
\* fails, with its jobs released.
SequencingStep ==
    \A t \in Tasks :
        /\ cmd_index'[t] # cmd_index[t] =>
              pc[t] = "run" /\ cmd_index'[t] = cmd_index[t] + 1
        /\ ~InCommands(t) /\ InCommands(t)' =>
              /\ cmd_index[t] = 0 /\ pc[t] \in {"acquire", "wait_jobs"}
              /\ jobs_available' = jobs_available - job_count[t]
        /\ InCommands(t) /\ ~InCommands(t)' =>
              /\ pc'[t] = "done"
              /\ jobs_available' = jobs_available + job_count[t]
              /\ outcome'[t] \in EntryErrors \cup {"pass"}
        /\ InCommands(t) /\ returncode'[t] \notin {-1, 0} =>
              outcome'[t] = "CommandFailed" /\ tasks_fail' = tasks_fail + 1

\* C25 (command sequencing): run_commands runs the entries of
\* action.command one at a time in list order under one acquisition of
\* job_count jobs, held from before the first entry until after the last; an
\* entry that fails (return code not zero, or neither callable nor string)
\* ends the task as failed and no later entry runs; if all succeed the
\* result is the value the last entry returned.
CommandSequencing == []SequencingInv /\ [][SequencingStep]_vars

\* A build has ended in which one task passed after a subprocess and a
\* callback, with the callback's value as result, a second failed in the
\* second entry after its first succeeded, and a third failed in the first
\* entry with a return code that is not zero.
CommandSequencingWitness ==
    /\ driver = "done"
    /\ \E t, u, v \in Tasks :
        /\ outcome[t] = "pass" /\ cmd_index[t] = MaxCmds
        /\ returncode[t] = 0
        /\ result[t] = [entry |-> MaxCmds, value |-> "returned by callback"]
        /\ outcome[u] = "InvalidCommand" /\ cmd_index[u] = MaxCmds
        /\ result[u].entry = MaxCmds - 1
        /\ outcome[v] = "CommandFailed" /\ cmd_index[v] = 1
        /\ returncode[v] = 1

\* ------------------------------------------------------------------ slices

\* Descriptions whose tasks differ in their producers, in their staleness
\* and in how their one command ends; every task asks for one job and has a
\* build file of its own.
Init ==
    InitWith([tasks |-> NumTasks,
              shapes |-> ConfigShapes,
              job_counts |-> {1},
              strict_paths |-> {"ok"},
              build_paths |-> {BuildPathUnder},
              build_files |-> "own",
              dry_runs |-> {FALSE},
              force |-> {FALSE},
              environments |-> "few",
              commands |-> {"str"},
              commands_max |-> 1,
              fates |-> [t \in Tasks |-> "any"]],
             1..MaxJobs, BOOLEAN, {FALSE})

\* Descriptions whose tasks differ in the jobs they ask for, under every job
\* budget; a command may be a callback that declares a task.
InitJobs ==
    InitWith([tasks |-> NumTasks,
              shapes |-> {"plain", "one"},
              job_counts |-> JobCounts,
              strict_paths |-> {"ok"},
              build_paths |-> {BuildPathUnder},
              build_files |-> "none",
              dry_runs |-> {FALSE},
              force |-> {FALSE},
              environments |-> "few",
              commands |-> {"str", "callback declares"},
              commands_max |-> MaxCmds,
              fates |-> [t \in Tasks |-> "any"]],
             1..MaxJobs, {FALSE}, {FALSE})

\* Descriptions whose tasks ask for one job, for the whole pool or for more
\* than the pool, under every job budget; every command is a subprocess.
InitPool ==
    InitWith([tasks |-> NumTasks,
              shapes |-> {"plain", "one"},
              job_counts |-> JobCounts,
              strict_paths |-> {"ok"},
              build_paths |-> {BuildPathUnder},
              build_files |-> "none",
              dry_runs |-> {FALSE},
              force |-> {FALSE},
              environments |-> "few",
              commands |-> {"str"},
              commands_max |-> 1,
              fates |-> [t \in Tasks |-> "any"]],
             1..MaxJobs, {FALSE}, {FALSE})

\* Descriptions whose tasks have up to MaxCmds commands: subprocesses,
\* callbacks and entries that are neither, under every job budget.
InitCommands ==
    InitWith([tasks |-> NumTasks,
              shapes |-> {"plain", "one"},
              job_counts |-> 1..MaxJobs,
              strict_paths |-> {"ok"},
              build_paths |-> {BuildPathUnder},
              build_files |-> "none",
              dry_runs |-> {FALSE},
              force |-> {FALSE},
              environments |-> "few",
              commands |-> {"str", "callback returns", "invalid"},
              commands_max |-> MaxCmds,
              fates |-> [t \in Tasks |-> "any"]],
             1..MaxJobs, {FALSE}, {FALSE})

\* Descriptions whose callbacks declare a task during the build and assign
\* it to a field of a task that is queued and has not started, with and
\* without shuffling.
InitQueue ==
    InitWith([tasks |-> NumTasks,
              shapes |-> {"plain", "one"},
              job_counts |-> {1},
              strict_paths |-> {"ok"},
              build_paths |-> {BuildPathUnder},
              build_files |-> "own",
              dry_runs |-> {FALSE},
              force |-> {FALSE},
              environments |-> "few",
              commands |-> {"str", "callback assigns"},
              commands_max |-> 1,
              fates |-> [t \in Tasks |-> "any"]],
             1..MaxJobs, BOOLEAN, {FALSE})

\* Descriptions whose tasks differ in their build paths and build files, with
\* and without dry_run.
InitOutputs ==
    InitWith([tasks |-> NumTasks - 1,
              shapes |-> {"plain", "one"},
              job_counts |-> {1},
              strict_paths |-> {"ok", "PathMissing"},
              build_paths |-> BuildPaths,
              build_files |-> "any",
              dry_runs |-> BOOLEAN,
              force |-> {TRUE},
              environments |-> "few",
              commands |-> {"str"},
              commands_max |-> 1,
              fates |-> [t \in Tasks |-> "any"]],
             {1}, {FALSE}, {FALSE})

\* Descriptions that fix how each task ends, under every job budget, with
\* and without shuffling.
InitShuffle ==
    \E f \in [Tasks -> Fates] :
        InitWith([tasks |-> NumTasks,
                  shapes |-> ConfigShapes,
                  job_counts |-> {1},
                  strict_paths |-> {"ok"},
                  build_paths |-> {BuildPathUnder},
                  build_files |-> "own",
                  dry_runs |-> {FALSE},
                  force |-> {FALSE},
                  environments |-> "few",
                  commands |-> {"str"},
                  commands_max |-> 1,
                  fates |-> f],
                 1..MaxJobs, BOOLEAN, {FALSE})

\* Descriptions whose callbacks declare tasks during the build, whose tasks
\* wait for producers and for jobs, with and without shuffling.
InitDrain ==
    InitWith([tasks |-> NumTasks,
              shapes |-> {"plain", "one"},
              job_counts |-> {1},
              strict_paths |-> {"ok"},
              build_paths |-> {BuildPathUnder},
              build_files |-> "own",
              dry_runs |-> {FALSE},
              force |-> {FALSE},
              environments |-> "few",
              commands |-> {"str", "callback declares"},
              commands_max |-> 1,
              fates |-> [t \in Tasks |-> "any"]],
             1..MaxJobs, BOOLEAN, {FALSE})

\* Descriptions whose configs hold awaitables that are not tasks, nested in
\* lists and dicts: one resolves to a string, one to a list that holds
\* another awaitable.
InitAwait ==
    InitWith([tasks |-> NumTasks,
              shapes |-> {"plain", "one", "deep"},
              job_counts |-> {1},
              strict_paths |-> {"ok"},
              build_paths |-> {BuildPathUnder},
              build_files |-> "own",
              dry_runs |-> {FALSE},
              force |-> {FALSE},
              environments |-> "few",
              commands |-> {"str"},
              commands_max |-> 1,
              fates |-> [t \in Tasks |-> "any"]],
             1..MaxJobs, {FALSE}, {FALSE})

\* Descriptions whose tasks set dry_run or leave it to the command line,
\* with the flag on and off; tasks are stale or up to date and their
\* commands are subprocesses and callbacks.
InitDryRun ==
    InitWith([tasks |-> NumTasks - 1,
              shapes |-> {"plain", "one"},
              job_counts |-> {1},
              strict_paths |-> {"ok"},
              build_paths |-> {BuildPathUnder},
              build_files |-> "own",
              dry_runs |-> BOOLEAN,
              force |-> BOOLEAN,
              environments |-> "few",
              commands |-> {"str", "callback returns"},
              commands_max |-> MaxCmds,
              fates |-> [t \in Tasks |-> "any"]],
             1..MaxJobs, {FALSE}, BOOLEAN)

\* A description without tasks: the library functions are called by
\* themselves.
NoDescription ==
    [tasks |-> 0, shapes |-> {}, job_counts |-> {}, strict_paths |-> {},
     build_paths |-> {}, build_files |-> "none", dry_runs |-> {},
     force |-> {}, environments |-> "few", commands |-> {},
     commands_max |-> 0, fates |-> [t \in Tasks |-> "any"]]

\* No build: the flags at their defaults and no task.
InitIdle ==
    /\ description = NoDescription
    /\ jobs = 1
    /\ shuffle = FALSE
    /\ dry_run = FALSE
    /\ InitApp

\* Every call of needs_rerun.
InitStale ==
    /\ InitIdle
    /\ InitDirs
    /\ stale_in \in StaleInputs
    /\ stale_out = NotCalled
    /\ InitExpand(NoFields)

\* The load phase: descriptions load modules.
InitLoad ==
    /\ InitIdle
    /\ InitDirs
    /\ stale_in = NoFiles
    /\ stale_out = NotCalled
    /\ InitExpand(NoFields)

\* Every call of expand.
InitExpansion ==
    /\ InitIdle
    /\ InitDirs
    /\ stale_in = NoFiles
    /\ stale_out = NotCalled
    /\ \E call \in ChainInputs \cup TextInputs \cup FailOkInputs
                       \cup VariantInputs : InitExpand(call)

\* Descriptions whose tasks fail at every stage: in the value-walk, in
\* task_init, in the staleness check and in a command.
InitErrors ==
    InitWith([tasks |-> NumTasks,
              shapes |-> {"plain", "one", "awaitable"},
              job_counts |-> {1},
              strict_paths |-> {"ok", "PathMissing"},
              build_paths |-> {BuildPathUnder},
              build_files |-> "own",
              dry_runs |-> {FALSE},
              force |-> {FALSE},
              environments |-> "few",
              commands |-> {"str", "invalid", "callback raises"},
              commands_max |-> 1,
              fates |-> [t \in Tasks |-> "any"]],
             1..MaxJobs, {FALSE}, {FALSE})

Spec == Init /\ [][Next]_vars
SpecJobs == InitJobs /\ [][Next]_vars
SpecOutputs == InitOutputs /\ [][Next]_vars
SpecErrors == InitErrors /\ [][Next]_vars
SpecShuffle == InitShuffle /\ [][Next]_vars
SpecAwait == InitAwait /\ [][Next]_vars
SpecDryRun == InitDryRun /\ [][Next]_vars
SpecCommands == InitCommands /\ [][Next]_vars
SpecQueue == InitQueue /\ [][Next]_vars
NextStale == CallNeedsRerun
SpecStale == InitStale /\ [][NextStale]_vars
NextExpand == CallExpand \/ CallExpandAgain
SpecExpand == InitExpansion /\ [][NextExpand]_vars
NextLoad == LoadModule \/ ModuleDone
SpecLoad == InitLoad /\ [][NextLoad]_vars
\* The event loop keeps running what is ready, and commands end.
SpecPool == InitPool /\ [][Next]_vars /\ WF_vars(Scheduled)
\* The event loop keeps running what is ready, and commands end.
SpecCycle == InitQueue /\ [][Next]_vars /\ WF_vars(Scheduled)
\* The event loop keeps running what is ready, and commands end.
SpecDrain == InitDrain /\ [][Next]_vars /\ WF_vars(Scheduled)

====
